---- MODULE Spec2Model ----
(***************************************************************************)
(* State-machine model of the tricycle dispatch simulator                  *)
(* (generator/entities.py, generator/scenarios/real.py).                   *)
(*                                                                         *)
(* Geometry is a one-dimensional road of cells 0..MaxPos.  Distances are   *)
(* counted in cells; one cell is longer than the 2 m location tolerance of *)
(* Map.isAtLocation and no longer than the 20 m pickup / drop-off /        *)
(* enqueue radii of generator/__main__.py, and a vehicle covers one cell   *)
(* per tick.  The route planner (OSRM) is an external collaborator: each   *)
(* query either yields the two-point route <<from, to>> or fails, which is *)
(* a nondeterministic choice of every step that consults it.               *)
(***************************************************************************)
EXTENDS Integers, Sequences, FiniteSets, TLC

\* ------------------------------------------------------------- bounds ---
NumPassengers == 4
MaxRoadPassengers == 1
MaxPos == 3
MaxTime == 6
MaxRouteFailures == 1
Capacity == 2
MaxOnboard == 3
MaxQueue == 2
MaxCount == 2
MaxToGo == 4
MaxTravel == 2

\* ------------------------------------------------- program constants ---
NumTrikes == 2
NumTerminals == 1
MAX_CYCLES == 1
Speed == 1
ENQUEUE_RADIUS == 1
S_ENQUEUE_RADIUS == 1
DROPOFF_RADIUS == 1
PICKUP_RADIUS == 1
AT_LOCATION_THRESHOLD == 0

None == 0
ChanceOne == 10000
ChanceTolerance == 10
Trikes == 1..NumTrikes
Psgrs == 1..NumPassengers
Terms == 1..NumTerminals
Pos == 0..MaxPos

PassengerStatus == {"WAITING", "ENQUEUED", "ONBOARD", "COMPLETED"}
TricycleStatus == {"IDLE", "SERVING", "TERMINAL", "ROAMING", "RETURNING", "ENQUEUING"}

\* ----------------------------------------------------------- geometry ---
Abs(x) == IF x < 0 THEN -x ELSE x
Min(a, b) == IF a < b THEN a ELSE b

\* util.haversine / util.get_euclidean_distance on the one-dimensional road
haversine(a, b) == Abs(a - b)

\* Fault injection: a location test that never finds two points together
isAtLocation_never(a, b) == FALSE

\* Fault injection: a location test as wide as the pickup radius
isAtLocation_nearby(a, b) == haversine(a, b) <= PICKUP_RADIUS

\* Map.isAtLocation
isAtLocation(a, b) == haversine(a, b) <= AT_LOCATION_THRESHOLD

\* util.interpolate_points: the point a given distance from a towards b
interpolate_points(a, b, travelled) ==
    IF b >= a THEN a + travelled ELSE a - travelled

\* ------------------------------------------------------- passengers ---
Event(type, data, time) == [type |-> type, data |-> data, time |-> time]

\* Passenger.__init__
NewPassenger(src, dest) ==
    [src |-> src, dest |-> dest, status |-> "WAITING", claimed_by |-> None,
     createTime |-> 0, pickupTime |-> -1, deathTime |-> -1,
     events |-> <<Event("APPEAR", None, 0)>>]

\* Passenger.onEnqueue
onEnqueue(p, trike_id, time) ==
    [p EXCEPT !.status = "ENQUEUED",
              !.claimed_by = trike_id,
              !.events = Append(@, Event("ENQUEUE", trike_id, time))]

\* Passenger.onLoad
onLoad(p, trike_id, time) ==
    [p EXCEPT !.events = Append(@, Event("LOAD", trike_id, time)),
              !.status = "ONBOARD",
              !.pickupTime = time,
              !.claimed_by = trike_id]

\* Fault injection: a drop-off that does not record its time
onDropoff_untimed(p, time) ==
    [p EXCEPT !.events = Append(@, Event("DROP-OFF", p.claimed_by, time)),
              !.status = "COMPLETED"]

\* Passenger.onDropoff
onDropoff(p, time) ==
    [p EXCEPT !.events = Append(@, Event("DROP-OFF", p.claimed_by, time)),
              !.status = "COMPLETED",
              !.deathTime = time]

\* Fault injection: a reset that leaves the claim on the passenger
onReset_keepsClaim(p, time) ==
    [p EXCEPT !.status = "WAITING",
              !.events = Append(@, Event("RESET", p.claimed_by, time))]

\* Passenger.onReset
onReset(p, time) ==
    [p EXCEPT !.status = "WAITING",
              !.claimed_by = None,
              !.events = Append(@, Event("RESET", p.claimed_by, time))]

\* ------------------------------------------- tricycle state machine ---
valid_transitions ==
    [s \in TricycleStatus |->
        CASE s = "IDLE"      -> {"SERVING", "TERMINAL", "ENQUEUING"}
          [] s = "SERVING"   -> {"RETURNING", "ROAMING"}
          [] s = "TERMINAL"  -> {"SERVING", "ENQUEUING"}
          [] s = "ROAMING"   -> {"SERVING", "ENQUEUING"}
          [] s = "RETURNING" -> {"TERMINAL", "ENQUEUING"}
          [] s = "ENQUEUING" -> {"SERVING", "ROAMING", "IDLE"}]

\* Fault injection: a validation that accepts every request
validateStatusTransition_any(status, new_status) == TRUE

\* Tricycle.validateStatusTransition
validateStatusTransition(status, new_status) ==
    new_status \in valid_transitions[status]

\* Tricycle.updateStatus: [status |-> the status after the request,
\* ok |-> the value returned]
updateStatusCall(status, new_status) ==
    IF validateStatusTransition(status, new_status)
    THEN [status |-> new_status, ok |-> TRUE]
    ELSE [status |-> status, ok |-> FALSE]

updateStatus(status, new_status) == updateStatusCall(status, new_status).status

\* An entry of a vehicle's event log: its type and its data (the passenger
\* of the event, the count of a MOVE, the length of a WAIT)
TrikeEvent(type, data) == [type |-> type, data |-> data]

\* Tricycle.__init__
NewTricycle(isRoaming, start) ==
    [isRoaming |-> isRoaming, pos |-> start, passengers |-> <<>>,
     capacity |-> Capacity, enqueuedPassenger |-> None,
     status |-> IF isRoaming THEN "ROAMING" ELSE "IDLE",
     active |-> TRUE, to_go |-> <<>>, roamPath |-> <<>>, cycleCount |-> 0,
     totalDistance |-> 0, totalProductiveDistance |-> 0, finished |-> FALSE,
     error |-> FALSE, events |-> <<TrikeEvent("APPEAR", None)>>]

\* The event log after a move: a MOVE at its end is counted up, otherwise a
\* new MOVE is appended
moveEvent(events) ==
    IF events # <<>> /\ events[Len(events)].type = "MOVE"
    THEN [events EXCEPT ![Len(events)].data = @ + 1]
    ELSE Append(events, TrikeEvent("MOVE", 1))

\* Tricycle.hasPassenger
hasPassenger(trike) == Len(trike.passengers) > 0

\* --------------------------------------------------- route planner ---
\* What one Tricycle.updatePath call gets from the planner:
\*   "ok"      every query returns a route
\*   "noroute" the first query raises NoRoute
\*   "short"   the first query returns fewer than 2 waypoints
\*   "noconn"  the first query returns a route, a later one (the repeated
\*             query or the connector) raises NoRoute or is too short
Replies == {"ok", "noroute", "short", "noconn"}

\* A query that ends in a runtime error (the request to the routing service
\* fails, or its answer cannot be decoded)
Faults == {"error"}

\* util.find_path_between_points_in_osrm, when it returns a route
find_path(p1, p2) == <<p1, p2>>

\* The planner's reply to the next updatePath call of the running step
NextReply(w) == IF w.oracle = <<>> THEN "ok" ELSE Head(w.oracle)
\* Fault injection: a refused route request that loses the to-go queues
Consume_dropsQueues(w, failed) ==
    [w EXCEPT !.oracle = IF @ = <<>> THEN @ ELSE Tail(@),
              !.route_failures = IF failed THEN @ + 1 ELSE @,
              !.tricycles = [v \in DOMAIN @ |->
                               IF failed THEN [@[v] EXCEPT !.to_go = <<>>]
                               ELSE @[v]]]

Consume(w, failed) ==
    [w EXCEPT !.oracle = IF @ = <<>> THEN @ ELSE Tail(@),
              !.route_failures = IF failed THEN @ + 1 ELSE @]

Last(s) == s[Len(s)]
Front(s) == SubSeq(s, 1, Len(s) - 1)

WithToGo(w, v, q) == [w EXCEPT !.tricycles[v].to_go = q]

\* Tricycle.updatePath: [w |-> the world after the call, ok |-> its result]
updatePath(w, v, new_destination, priority) ==
    LET trike == w.tricycles[v]
        cur == trike.pos
        to_go == trike.to_go
        reply == NextReply(w)
        Rejected == [w |-> Consume(w, TRUE), ok |-> FALSE]
        Raised == [w |-> [Consume(w, TRUE) EXCEPT !.raised = TRUE], ok |-> FALSE]
        Done(q) == [w |-> WithToGo(Consume(w, FALSE), v, q), ok |-> TRUE]
        new_points == find_path(cur, new_destination)
    IN
    IF /\ trike.status = "ENQUEUING"
       /\ \/ trike.enqueuedPassenger = None
          \/ ~isAtLocation(new_destination,
                           w.passengers[trike.enqueuedPassenger].src)
    THEN [w |-> w, ok |-> FALSE]
    ELSE IF isAtLocation(cur, new_destination)
    THEN [w |-> w, ok |-> TRUE]
    ELSE IF reply \in Faults
    THEN Raised
    ELSE IF reply \in {"noroute", "short"}
    THEN Rejected
    ELSE IF to_go # <<>> /\ Last(to_go) = new_destination
    THEN Done(to_go)
    ELSE IF priority = "replace"
    THEN Done(new_points)
    ELSE IF priority = "front"
    THEN IF to_go # <<>>
         THEN IF reply = "noconn"
              THEN Rejected
              ELSE LET path_to_dest == find_path(cur, new_destination)
                       connecting == find_path(new_destination, to_go[1])
                       path_to_dest_points ==
                           IF cur = path_to_dest[1]
                           THEN Tail(path_to_dest) ELSE path_to_dest
                   IN Done(path_to_dest_points \o connecting \o Tail(to_go))
         ELSE Done(new_points)
    ELSE \* append
         IF to_go # <<>>
         THEN IF reply = "noconn"
              THEN Rejected
              ELSE Done(Front(to_go) \o find_path(Last(to_go), new_destination))
         ELSE Done(new_points)


\* ------------------------------------------------------- scheduling ---
\* Path.getDistance of the visit of the destinations in the given order
RECURSIVE pathLength(_, _, _, _)
pathLength(w, from, order, i) ==
    IF i > Len(order) THEN 0
    ELSE haversine(from, w.passengers[order[i]].dest)
         + pathLength(w, w.passengers[order[i]].dest, order, i + 1)

IndexOrders(n) ==
    {f \in [1..n -> 1..n] : \A i, j \in 1..n : f[i] = f[j] => i = j}

\* itertools.permutations enumerates index tuples in lexicographic order
LexBefore(f, g, n) ==
    \E i \in 1..n : f[i] < g[i] /\ \A j \in 1..(i - 1) : f[j] = g[j]

\* algos.sort_path_brute: the first visiting order of minimum total length
sort_path_brute(w, src, passengers) ==
    LET n == Len(passengers)
        cost(f) == pathLength(w, src, [i \in 1..n |-> passengers[f[i]]], 1)
        best == CHOOSE f \in IndexOrders(n) :
                    \A g \in IndexOrders(n) :
                        \/ cost(f) < cost(g)
                        \/ cost(f) = cost(g) /\ (f = g \/ LexBefore(f, g, n))
    IN [best_order |-> best, start_index |-> best[1]]

\* Fault injection: the first-come policy in place of the optimal one
smart_scheduler_firstCome(w, src, passengers) ==
    [start_index |-> 1, next_passenger |-> passengers[1]]

\* scenarios.real.smart_scheduler: the index of the next passenger and the
\* passenger at that index
smart_scheduler(w, src, passengers) ==
    LET start_index == sort_path_brute(w, src, passengers).start_index
    IN [start_index |-> start_index, next_passenger |-> passengers[start_index]]

\* Tricycle.scheduleNextPassenger
scheduleNextPassenger(w, v) ==
    LET trike == w.tricycles[v]
        p == smart_scheduler(w, trike.pos, trike.passengers).next_passenger
        r == updatePath(w, v, w.passengers[p].dest, "front")
    IN IF ~r.ok
       THEN r.w
       ELSE [r.w EXCEPT !.tricycles[v].status = updateStatus(@, "SERVING")]

\* --------------------------------------------------------- claiming ---
\* Map.getNearbyPassengers
getNearbyPassengers(w, point, radiusMeters) ==
    SelectSeq(w.map_passengers,
              LAMBDA p : haversine(point, w.passengers[p].src) <= radiusMeters)

\* Fault injection: the last candidate in map order instead of the nearest
closestPassenger_last(w, cur, candidates) == candidates[Len(candidates)]

\* The head of the distance-sorted list: the sort is stable, so among the
\* nearest candidates the first in map order wins
closestPassenger(w, cur, candidates) ==
    LET d(i) == haversine(cur, w.passengers[candidates[i]].src)
        i == CHOOSE i \in 1..Len(candidates) :
                 \A j \in 1..Len(candidates) :
                     d(i) < d(j) \/ (d(i) = d(j) /\ i <= j)
    IN candidates[i]

\* Fault injection: a route test that finds every point on the route
is_en_route_always(p1, p2, p3) == TRUE

\* util.is_en_route on the planner's route between p1 and p2
is_en_route(p1, p2, p3) ==
    (p1 <= p3 /\ p3 <= p2) \/ (p2 <= p3 /\ p3 <= p1)

\* Fault injection: a rollback that resets the passenger but keeps the
\* vehicle's outstanding claim
rollbackClaim_keepsClaim(w, v, p, time) ==
    [w EXCEPT !.passengers[p] = onReset(@, time),
              !.tricycles[v].status =
                  updateStatus(@, IF w.tricycles[v].isRoaming
                                  THEN "ROAMING" ELSE "IDLE")]

\* Fault injection: a rollback that frees the vehicle's outstanding claim but
\* leaves the passenger ENQUEUED
rollbackClaim_keepsPassenger(w, v, p, time) ==
    [w EXCEPT !.tricycles[v].enqueuedPassenger = None,
              !.tricycles[v].status =
                  updateStatus(@, IF w.tricycles[v].isRoaming
                                  THEN "ROAMING" ELSE "IDLE")]

\* The rollback of a claim whose route update failed
rollbackClaim(w, v, p, time) ==
    [w EXCEPT !.passengers[p] = onReset(@, time),
              !.tricycles[v].enqueuedPassenger = None,
              !.tricycles[v].status =
                  updateStatus(@, IF w.tricycles[v].isRoaming
                                  THEN "ROAMING" ELSE "IDLE")]

\* Fault injection: a vehicle that looks for passengers whatever it holds
mayProbe_always(trike) == TRUE

\* The first two tests of Tricycle.enqueueNearbyPsgrBetter: the vehicle has
\* no outstanding claim and has a free seat
mayProbe(trike) ==
    /\ trike.enqueuedPassenger = None
    /\ trike.capacity - Len(trike.passengers) > 0

\* Tricycle.enqueueNearbyPsgrBetter; routeFound is the planner's answer to
\* the query of is_en_route (FALSE: it raises NoRoute)
enqueueNearbyPsgrBetter(w, v, time, routeFound) ==
    LET trike == w.tricycles[v]
        cur == trike.pos
        radius == IF hasPassenger(trike)
                  THEN S_ENQUEUE_RADIUS ELSE ENQUEUE_RADIUS
        waiting == SelectSeq(getNearbyPassengers(w, cur, radius),
                             LAMBDA p : w.passengers[p].status = "WAITING")
    IN
    IF ~mayProbe(trike) THEN w
    ELSE IF waiting = <<>> THEN w
    ELSE
      LET p == closestPassenger(w, cur, waiting)
          src == w.passengers[p].src
          empty == Len(trike.passengers) = 0
          asked == Len(trike.to_go) > 0
          dest_en_route ==
              /\ asked
              /\ routeFound
              /\ is_en_route(cur, trike.to_go[1], w.passengers[p].dest)
          allow_enqueue == empty \/ dest_en_route
          w0 == IF asked /\ ~routeFound
                THEN [w EXCEPT !.route_failures = @ + 1] ELSE w
          w1 == [w0 EXCEPT !.passengers[p] = onEnqueue(@, v, time),
                           !.tricycles[v].enqueuedPassenger = p,
                           !.tricycles[v].events =
                               Append(@, TrikeEvent("ENQUEUE", p)),
                           !.tricycles[v].status = updateStatus(@, "ENQUEUING")]
      IN
      IF ~allow_enqueue THEN w0
      ELSE IF \E k \in 1..Len(trike.to_go) : trike.to_go[k] = src THEN w1
      ELSE LET r == updatePath(w1, v, src, "front")
           IN IF ~r.ok THEN rollbackClaim(r.w, v, p, time) ELSE r.w

\* ---------------------------------------------------------- loading ---
\* Fault injection: loadPassenger without its capacity test
loadPassenger_unguarded(w, v, p, time) ==
    [w |-> [w EXCEPT
              !.tricycles[v].events =
                  Append(Append(@, TrikeEvent("LOAD", p)),
                         TrikeEvent("WAIT", 100)),
              !.tricycles[v].passengers = Append(@, p),
              !.tricycles[v].enqueuedPassenger = None,
              !.passengers[p] = onLoad(@, v, time),
              !.tricycles[v].cycleCount = 0,
              !.tricycles[v].status =
                  IF @ # "SERVING" THEN updateStatus(@, "SERVING") ELSE @],
     ok |-> TRUE]

\* Tricycle.loadPassenger: [w |-> the world after the call, ok |-> result]
loadPassenger(w, v, p, time) ==
    LET trike == w.tricycles[v]
    IN IF Len(trike.passengers) >= trike.capacity
       THEN [w |-> w, ok |-> FALSE]
       ELSE [w |-> [w EXCEPT
                      !.tricycles[v].events =
                          Append(Append(@, TrikeEvent("LOAD", p)),
                                 TrikeEvent("WAIT", 100)),
                      !.tricycles[v].passengers = Append(@, p),
                      !.tricycles[v].enqueuedPassenger = None,
                      !.passengers[p] = onLoad(@, v, time),
                      !.tricycles[v].cycleCount = 0,
                      !.tricycles[v].status =
                          IF @ # "SERVING" THEN updateStatus(@, "SERVING") ELSE @],
             ok |-> TRUE]

\* Map.removePassenger
removePassenger(w, p) ==
    [w EXCEPT !.map_passengers = SelectSeq(@, LAMBDA x : x # p)]

\* The loop of Tricycle.tryLoad over the passengers that were nearby when it
\* started: [w |-> the world after it, loaded |-> the passengers loaded]
RECURSIVE tryLoadLoop(_, _, _, _, _, _)
tryLoadLoop(w, v, time, nearby, i, loaded) ==
    IF i > Len(nearby) THEN [w |-> w, loaded |-> loaded]
    ELSE
      LET p == nearby[i]
          trike == w.tricycles[v]
      IN
      IF w.passengers[p].status # "ENQUEUED"
      THEN tryLoadLoop(w, v, time, nearby, i + 1, loaded)
      ELSE IF w.passengers[p].claimed_by # v
      THEN tryLoadLoop(w, v, time, nearby, i + 1, loaded)
      ELSE IF ~isAtLocation(trike.pos, w.passengers[p].src)
      THEN tryLoadLoop(w, v, time, nearby, i + 1, loaded)
      ELSE IF Len(trike.passengers) >= trike.capacity
      THEN tryLoadLoop([w EXCEPT !.passengers[p] = onReset(@, time)],
                       v, time, nearby, i + 1, loaded)
      ELSE
        LET l == loadPassenger(w, v, p, time)
            w1 == [removePassenger(l.w, p) EXCEPT
                      !.tricycles[v].events = Append(@, TrikeEvent("WAIT", 200))]
            w2 == scheduleNextPassenger(w1, v)
            w3 == [w2 EXCEPT !.tricycles[v].status = updateStatus(@, "SERVING")]
        IN IF l.ok
           THEN tryLoadLoop(w3, v, time, nearby, i + 1, Append(loaded, p))
           ELSE tryLoadLoop([w EXCEPT !.passengers[p] = onReset(@, time)],
                            v, time, nearby, i + 1, loaded)

\* Tricycle.tryLoad
tryLoad(w, v, time) ==
    tryLoadLoop(w, v, time,
                getNearbyPassengers(w, w.tricycles[v].pos, PICKUP_RADIUS),
                1, <<>>)

\* scenarios.real.process_passenger, for every passenger of a list
RECURSIVE process_passengers(_, _, _, _)
process_passengers(w, ps, i, time) ==
    IF i > Len(ps) THEN w
    ELSE process_passengers(
             [w EXCEPT !.passengers[ps[i]].pickupTime = time,
                       !.passengers[ps[i]].status = "ONBOARD"],
             ps, i + 1, time)

\* -------------------------------------------------------- unloading ---
\* The loop of Tricycle.tryOffload over a copy of the onboard list:
\* [w |-> the world after it, dropped |-> the passengers dropped]
RECURSIVE tryOffloadLoop(_, _, _, _, _, _)
tryOffloadLoop(w, v, time, onboard, i, dropped) ==
    IF i > Len(onboard) THEN [w |-> w, dropped |-> dropped]
    ELSE
      LET p == onboard[i]
      IN IF haversine(w.tricycles[v].pos, w.passengers[p].dest) <= DROPOFF_RADIUS
         THEN tryOffloadLoop(
                  [w EXCEPT !.tricycles[v].events =
                                Append(@, TrikeEvent("DROP-OFF", p)),
                            !.tricycles[v].passengers =
                                SelectSeq(@, LAMBDA x : x # p),
                            !.passengers[p] = onDropoff(@, time)],
                  v, time, onboard, i + 1, Append(dropped, p))
         ELSE tryOffloadLoop(w, v, time, onboard, i + 1, dropped)

\* Tricycle.tryOffload
tryOffload(w, v, time) ==
    LET l == tryOffloadLoop(w, v, time, w.tricycles[v].passengers, 1, <<>>)
        t1 == l.w.tricycles[v]
        w0 == IF t1.passengers = <<>>
              THEN IF t1.isRoaming
                   THEN IF t1.status # "ROAMING"
                        THEN [l.w EXCEPT !.tricycles[v].status =
                                             updateStatus(@, "ROAMING")]
                        ELSE l.w
                   ELSE IF t1.status # "RETURNING"
                        THEN [l.w EXCEPT !.tricycles[v].status =
                                             updateStatus(@, "RETURNING")]
                        ELSE l.w
              ELSE l.w
        w1 == [w0 EXCEPT !.tricycles[v].events = Append(@, TrikeEvent("WAIT", 100))]
        enq == w1.tricycles[v].enqueuedPassenger
    IN
    IF l.dropped = <<>> THEN w0
    ELSE IF enq # None
    THEN LET r == updatePath(w1, v, w1.passengers[enq].src, "front")
         IN IF r.w.raised THEN r.w
            ELSE IF ~r.ok THEN rollbackClaim(r.w, v, enq, time) ELSE r.w
    ELSE IF w1.tricycles[v].passengers # <<>>
    THEN scheduleNextPassenger(w1, v)
    ELSE w1


\* --------------------------------------------------------- movement ---
\* Fault injection: moveTrike without its test of the TERMINAL status
moveTrike_unguarded(w, v) ==
    LET trike == w.tricycles[v]
        cur == trike.pos
        nxt == trike.to_go[1]
        distRequired == haversine(cur, nxt)
        distTravelled == Min(distRequired, Speed)
        moved == [trike EXCEPT
                    !.pos = interpolate_points(cur, nxt, distTravelled),
                    !.totalDistance = @ + distTravelled,
                    !.events = moveEvent(@),
                    !.totalProductiveDistance =
                        IF hasPassenger(trike) THEN @ + distTravelled ELSE @,
                    !.to_go = IF distTravelled >= distRequired THEN Tail(@) ELSE @]
    IN
    IF trike.to_go = <<>> THEN [w |-> w, time_taken |-> 0]
    ELSE IF distRequired = 0
    THEN [w |-> [w EXCEPT !.tricycles[v].to_go = Tail(@)], time_taken |-> 0]
    ELSE [w |-> [w EXCEPT !.tricycles[v] = moved], time_taken |-> 1]

\* Fault injection: moveTrike counting every distance as productive
moveTrike_allProductive(w, v) ==
    LET trike == w.tricycles[v]
        cur == trike.pos
        nxt == trike.to_go[1]
        distRequired == haversine(cur, nxt)
        distTravelled == Min(distRequired, Speed)
        moved == [trike EXCEPT
                    !.pos = interpolate_points(cur, nxt, distTravelled),
                    !.totalDistance = @ + distTravelled,
                    !.events = moveEvent(@),
                    !.totalProductiveDistance = @ + distTravelled,
                    !.to_go = IF distTravelled >= distRequired THEN Tail(@) ELSE @]
    IN
    IF trike.status = "TERMINAL" THEN [w |-> w, time_taken |-> 0]
    ELSE IF trike.to_go = <<>> THEN [w |-> w, time_taken |-> 0]
    ELSE IF distRequired = 0
    THEN [w |-> [w EXCEPT !.tricycles[v].to_go = Tail(@)], time_taken |-> 0]
    ELSE [w |-> [w EXCEPT !.tricycles[v] = moved], time_taken |-> 1]

\* Tricycle.moveTrike (useMeters): [w |-> the world after the call,
\* time_taken |-> its result]
moveTrike(w, v) ==
    LET trike == w.tricycles[v]
        cur == trike.pos
        nxt == trike.to_go[1]
        distRequired == haversine(cur, nxt)
        distTravelled == Min(distRequired, Speed)
        moved == [trike EXCEPT
                    !.pos = interpolate_points(cur, nxt, distTravelled),
                    !.totalDistance = @ + distTravelled,
                    !.events = moveEvent(@),
                    !.totalProductiveDistance =
                        IF hasPassenger(trike) THEN @ + distTravelled ELSE @,
                    !.to_go = IF distTravelled >= distRequired THEN Tail(@) ELSE @]
    IN
    IF trike.status = "TERMINAL" THEN [w |-> w, time_taken |-> 0]
    ELSE IF trike.to_go = <<>> THEN [w |-> w, time_taken |-> 0]
    ELSE IF distRequired = 0
    THEN [w |-> [w EXCEPT !.tricycles[v].to_go = Tail(@)], time_taken |-> 0]
    ELSE [w |-> [w EXCEPT !.tricycles[v] = moved], time_taken |-> 1]

\* Fault injection: a finishTrip that leaves the vehicle active
finishTrip_keepsActive(w, v) ==
    [w EXCEPT !.tricycles[v].finished = TRUE,
              !.tricycles[v].events = Append(@, TrikeEvent("FINISH", None))]

\* Tricycle.finishTrip
finishTrip(w, v) ==
    [w EXCEPT !.tricycles[v].active = FALSE, !.tricycles[v].finished = TRUE,
              !.tricycles[v].events = Append(@, TrikeEvent("FINISH", None))]

\* ---------------------------------------------------------- roaming ---
\* The back-and-forth paths scenarios.util.gen_random_bnf_roam_path can draw
RoamPaths == {<<1, MaxPos>>, <<MaxPos, 1>>}

\* Tricycle.newRoamPath with the drawn path
newRoamPath(w, v, new_path) ==
    LET r == updatePath(w, v, new_path[1], "append")
    IN IF r.ok
       THEN [r.w EXCEPT !.tricycles[v].roamPath = new_path,
                        !.tricycles[v].cycleCount = 0,
                        !.tricycles[v].events =
                            Append(@, TrikeEvent("NEW_ROAM_PATH", None))]
       ELSE r.w

\* Fault injection: a cycle count that is never compared with maxCycles
onCycleComplete_counts(w, v, new_path) ==
    LET trike == w.tricycles[v]
    IN IF trike.status = "ROAMING" /\ ~hasPassenger(trike)
          /\ trike.enqueuedPassenger = None
       THEN [w EXCEPT !.tricycles[v].cycleCount = @ + 1]
       ELSE w

\* Tricycle.onCycleComplete
onCycleComplete(w, v, new_path) ==
    LET trike == w.tricycles[v]
    IN IF trike.status = "ROAMING" /\ ~hasPassenger(trike)
          /\ trike.enqueuedPassenger = None
       THEN LET w1 == [w EXCEPT !.tricycles[v].cycleCount = @ + 1]
            IN IF w1.tricycles[v].cycleCount >= MAX_CYCLES
               THEN newRoamPath(w1, v, new_path)
               ELSE w1
       ELSE w

\* Cycle.getNearestPointIndex: the least (distance, index) pair
getNearestPointIndex(path, other) ==
    CHOOSE i \in 1..Len(path) :
        \A j \in 1..Len(path) :
            \/ haversine(other, path[i]) < haversine(other, path[j])
            \/ haversine(other, path[i]) = haversine(other, path[j]) /\ i <= j

\* Cycle.getNextPoint
getNextPoint(path, other) ==
    path[(getNearestPointIndex(path, other) % Len(path)) + 1]

\* Tricycle.loadNextCyclePoint
loadNextCyclePoint(w, v) ==
    LET trike == w.tricycles[v]
    IN IF trike.roamPath = <<>> THEN w
       ELSE updatePath(w, v, getNextPoint(trike.roamPath, trike.pos), "append").w

\* -------------------------------------------------------- terminals ---
\* Fault injection: a terminal that queues a vehicle and leaves it active
addTricycle_keepsActive(w, t, v) ==
    IF w.tricycles[v].status \notin {"IDLE", "RETURNING"} THEN w
    ELSE [w EXCEPT !.terminals[t].queue = Append(@, v),
                   !.tricycles[v].status = updateStatus(@, "TERMINAL")]

\* Terminal.addTricycle
addTricycle(w, t, v) ==
    IF w.tricycles[v].status \notin {"IDLE", "RETURNING"} THEN w
    ELSE [w EXCEPT !.terminals[t].queue = Append(@, v),
                   !.tricycles[v].active = FALSE,
                   !.tricycles[v].status = updateStatus(@, "TERMINAL")]

\* The loop of Terminal.loadTricycle: the head vehicle takes passengers from
\* the front of the queue until one is refused
RECURSIVE loadTricycleLoop(_, _, _, _, _)
loadTricycleLoop(w, t, topTrike, time, taken) ==
    IF Len(w.terminals[t].passengers) = 0 THEN [w |-> w, passengers |-> taken]
    ELSE LET topPassenger == w.terminals[t].passengers[1]
             l == loadPassenger(w, topTrike, topPassenger, time)
         IN IF l.ok
            THEN loadTricycleLoop(
                     [l.w EXCEPT !.terminals[t].passengers = Tail(@)],
                     t, topTrike, time, Append(taken, topPassenger))
            ELSE [w |-> w, passengers |-> taken]

\* Fault injection: a matching that stops after the first passenger
loadTricycle_single(w, t, time) ==
    LET topTrike == w.terminals[t].queue[1]
        topPassenger == w.terminals[t].passengers[1]
        l == loadPassenger(w, topTrike, topPassenger, time)
    IN IF l.ok
       THEN [w |-> [l.w EXCEPT !.terminals[t].passengers = Tail(@)],
             passengers |-> <<topPassenger>>]
       ELSE [w |-> w, passengers |-> <<>>]

\* Terminal.loadTricycle, called with both queues non-empty:
\* [w |-> the world after the call, passengers |-> the passengers loaded]
loadTricycle(w, t, time) ==
    loadTricycleLoop(w, t, w.terminals[t].queue[1], time, <<>>)

\* Terminal.popTricycle
popTricycle(w, t) ==
    IF w.terminals[t].queue = <<>> THEN w
    ELSE [w EXCEPT !.tricycles[w.terminals[t].queue[1]].active = TRUE,
                   !.terminals[t].queue = Tail(@)]

\* The loop over the terminals of scenarios.real.process_frame, phase 3:
\* park the vehicle in the first terminal it is at, else find the nearest.
\* nearest = 0: no terminal chosen; parked tells whether it was parked
RECURSIVE seekTerminal(_, _, _, _)
seekTerminal(w, v, t, nearest) ==
    IF t > NumTerminals THEN [w |-> w, nearest |-> nearest, parked |-> FALSE]
    ELSE
      LET trike == w.tricycles[v]
          loc == w.terminals[t].location
          is_at_terminal == /\ isAtLocation(loc, trike.pos)
                            /\ trike.status \in {"IDLE", "RETURNING"}
      IN IF is_at_terminal
         THEN [w |-> [addTricycle(w, t, v) EXCEPT
                        !.tricycles[v].status = "TERMINAL"],
               nearest |-> 0, parked |-> TRUE]
         ELSE IF \/ nearest = 0
                 \/ haversine(trike.pos, loc)
                      < haversine(trike.pos, w.terminals[nearest].location)
         THEN seekTerminal(w, v, t + 1, t)
         ELSE seekTerminal(w, v, t + 1, nearest)

\* The behaviour of a vehicle that did not move (process_frame, phase 3)
didNotMove(w, v, time, new_path) ==
    LET w1 == tryOffload(w, v, time)
        trike == w1.tricycles[v]
    IN
    IF w1.raised THEN w1
    ELSE IF hasPassenger(trike) THEN scheduleNextPassenger(w1, v)
    ELSE IF ~trike.isRoaming
    THEN LET s == seekTerminal(w1, v, 1, 0)
         IN IF s.nearest # 0
            THEN LET r == updatePath(s.w, v, s.w.terminals[s.nearest].location,
                                     "front")
                 IN IF r.w.raised THEN r.w
                    ELSE IF ~r.ok THEN finishTrip(r.w, v) ELSE r.w
            ELSE IF ~s.parked THEN finishTrip(s.w, v)
            ELSE s.w
    ELSE LET w2 == onCycleComplete(w1, v, new_path)
         IN IF w2.raised THEN w2 ELSE loadNextCyclePoint(w2, v)

\* One vehicle's turn in phase 3 of process_frame: the body of the try
moveTurn(w, v, time, new_path) ==
    LET m == moveTrike(w, v)
    IN IF m.time_taken = 0 THEN didNotMove(m.w, v, time, new_path) ELSE m.w

\* The handler of a runtime error raised in the turn: the error is reported
\* and the vehicle's trip is finished
exceptException(w, v) ==
    IF w.raised
    THEN finishTrip([w EXCEPT !.raised = FALSE, !.tricycles[v].error = TRUE], v)
    ELSE w

\* One vehicle's turn in phase 3 of process_frame, with its try/except
moveStep(w, v, time, new_path) ==
    exceptException(moveTurn(w, v, time, new_path), v)


\* ------------------------------------------------------------ state ---
VARIABLES
    tricycles,       \* Simulator.run: the list tricycles, in creation order
    passengers,      \* Simulator.run: the list passengers
    terminals,       \* Simulator.run: the list terminals
    map_passengers,  \* Map.passengers
    cur_time,        \* cur_time[0]
    phase,           \* where process_frame / the main loop stands
    idx,             \* the vehicle (or terminal) the running phase is at
    route_failures,  \* planner failures so far (bounded by MaxRouteFailures)
    call             \* the last direct call of a method by a test driver

vars == <<tricycles, passengers, terminals, map_passengers, cur_time, phase,
          idx, route_failures, call>>

\* No method has been called directly: the simulator drives the objects
NoCall ==
    [op |-> "none", trike |-> None, passenger |-> None, status |-> "",
     new_status |-> "", ok |-> FALSE, index |-> 0]

World(oracle) ==
    [tricycles |-> tricycles, passengers |-> passengers,
     terminals |-> terminals, map_passengers |-> map_passengers,
     oracle |-> oracle, route_failures |-> route_failures, raised |-> FALSE]

Commit(w) ==
    \E done \in {w} :
        /\ done.route_failures <= MaxRouteFailures
        /\ tricycles' = done.tricycles
        /\ passengers' = done.passengers
        /\ terminals' = done.terminals
        /\ map_passengers' = done.map_passengers
        /\ route_failures' = done.route_failures

\* The planner's replies to the (at most k) updatePath calls of one step
Oracles(k) ==
    {s \in [1..k -> Replies] :
        Cardinality({i \in 1..k : s[i] # "ok"})
            <= MaxRouteFailures - route_failures}

\* The planner's replies in phase 3, where a runtime error is caught
MoveOracles(k) ==
    {s \in [1..k -> Replies \cup Faults] :
        Cardinality({i \in 1..k : s[i] # "ok"})
            <= MaxRouteFailures - route_failures}

\* ------------------------------------------------------------ setup ---
TerminalLocation == [t \in Terms |-> 0]
Hotspots == {1}

TrikeSetups ==
    {[isRoaming |-> FALSE, start |-> 0, path |-> <<>>, reply |-> "ok"]}
    \cup [isRoaming : {TRUE}, start : Hotspots, path : RoamPaths,
          reply : {"ok", "noroute"}]

\* A terminal passenger starts at its terminal; a road passenger on the road
PassengerSetups ==
    [road : {FALSE}, src : {0}, dest : {1, MaxPos}]
    \cup [road : {TRUE}, src : {1, 2}, dest : {MaxPos}]

\* Simulator.run, "Generate tricycles": vehicle i and those after it
RECURSIVE setupTricycles(_, _, _)
setupTricycles(w, i, cfg) ==
    IF i > NumTrikes THEN w
    ELSE
      LET c == cfg[i]
          in_terminal == 1
          start == IF c.isRoaming THEN c.start
                   ELSE w.terminals[in_terminal].location
          w1 == [w EXCEPT !.tricycles[i] = NewTricycle(c.isRoaming, start),
                          !.oracle = <<c.reply>>]
          w2 == IF c.isRoaming THEN newRoamPath(w1, i, c.path)
                ELSE addTricycle(w1, in_terminal, i)
      IN setupTricycles(w2, i + 1, cfg)

\* Simulator.run, "Generate passengers": passenger i and those after it
RECURSIVE setupPassengers(_, _, _)
setupPassengers(w, i, cfg) ==
    IF i > NumPassengers THEN w
    ELSE
      LET c == cfg[i]
          in_terminal == 1
          src == IF c.road THEN c.src ELSE w.terminals[in_terminal].location
          w1 == [w EXCEPT !.passengers[i] = NewPassenger(src, c.dest),
                          !.map_passengers = Append(@, i)]
          w2 == IF c.road THEN w1
                ELSE [w1 EXCEPT !.terminals[in_terminal].passengers = Append(@, i)]
      IN setupPassengers(w2, i + 1, cfg)

EmptyWorld ==
    [tricycles |-> [v \in Trikes |-> NewTricycle(FALSE, 0)],
     passengers |-> [p \in Psgrs |-> NewPassenger(0, 0)],
     terminals |-> [t \in Terms |->
                      [location |-> TerminalLocation[t], queue |-> <<>>,
                       passengers |-> <<>>]],
     map_passengers |-> <<>>, oracle |-> <<>>, route_failures |-> 0,
     raised |-> FALSE]

Setup(trikeCfg, psgrCfg) ==
    setupPassengers(setupTricycles(EmptyWorld, 1, trikeCfg), 1, psgrCfg)

\* The passenger populations explored: at most MaxRoadPassengers of the
\* passengers are created on the road, the others at the terminal
PassengerConfigs ==
    {f \in [Psgrs -> PassengerSetups] :
        Cardinality({i \in Psgrs : f[i].road}) <= MaxRoadPassengers}

Init ==
    \E trikeCfg \in [Trikes -> TrikeSetups], psgrCfg \in PassengerConfigs :
        LET w == Setup(trikeCfg, psgrCfg)
        IN /\ w.route_failures <= MaxRouteFailures
           /\ tricycles = w.tricycles
           /\ passengers = w.passengers
           /\ terminals = w.terminals
           /\ map_passengers = w.map_passengers
           /\ route_failures = w.route_failures
           /\ cur_time = 0
           /\ phase = IF 0 < MaxTime THEN "claim" ELSE "done"
           /\ idx = 1
           /\ call = NoCall

\* ---------------------------------------------------------- actions ---
\* After vehicle idx's turn in a phase: the next vehicle, or the next phase
\* Fault injection: a phase that is left after its first vehicle
NextTrike_firstOnly(first, following) ==
    phase' = following /\ idx' = 1

\* The for loops of process_frame: the next vehicle of the phase, then the
\* next phase
NextTrike(first, following) ==
    IF idx < NumTrikes
    THEN phase' = first /\ idx' = idx + 1
    ELSE phase' = following /\ idx' = 1

\* Fault injection: a phase 1 in which every active vehicle looks for
\* passengers
Claim_everyActive ==
    /\ phase = "claim"
    /\ \E rs \in Oracles(1), routeFound \in BOOLEAN :
         LET trike == tricycles[idx]
         IN IF trike.active
            THEN Commit(enqueueNearbyPsgrBetter(World(rs), idx, cur_time, routeFound))
            ELSE Commit(World(<<>>))
    /\ NextTrike("claim", "offload")
    /\ UNCHANGED <<cur_time, call>>

\* process_frame, phase 1, one vehicle
Claim ==
    /\ phase = "claim"
    /\ \E rs \in Oracles(1), routeFound \in BOOLEAN :
         LET trike == tricycles[idx]
         IN IF trike.active /\ (trike.isRoaming \/ trike.status = "SERVING")
            THEN Commit(enqueueNearbyPsgrBetter(World(rs), idx, cur_time, routeFound))
            ELSE Commit(World(<<>>))
    /\ NextTrike("claim", "offload")
    /\ UNCHANGED <<cur_time, call>>

\* process_frame, phase 2, one vehicle: tryOffload
Offload ==
    /\ phase = "offload"
    /\ IF tricycles[idx].active
       THEN /\ \E rs \in Oracles(1) : Commit(tryOffload(World(rs), idx, cur_time))
            /\ phase' = "load" /\ idx' = idx
       ELSE /\ Commit(World(<<>>))
            /\ NextTrike("offload", "move")
    /\ UNCHANGED <<cur_time, call>>

\* process_frame, phase 2, one vehicle: tryLoad and process_passenger
Load ==
    /\ phase = "load"
    /\ \E rs \in Oracles(1) :
         LET l == tryLoad(World(rs), idx, cur_time)
         IN Commit(process_passengers(l.w, l.loaded, 1, cur_time))
    /\ NextTrike("offload", "move")
    /\ UNCHANGED <<cur_time, call>>

\* process_frame, phase 3, one vehicle
Move ==
    /\ phase = "move"
    /\ IF tricycles[idx].active
       THEN \E rs \in MoveOracles(3), new_path \in RoamPaths :
                Commit(moveStep(World(rs), idx, cur_time, new_path))
       ELSE Commit(World(<<>>))
    /\ NextTrike("move", "terminal")
    /\ UNCHANGED <<cur_time, call>>

\* Fault injection: a phase 4 that matches each terminal once instead of
\* repeating until no match is left
TerminalMatch_once ==
    /\ phase = "terminal"
    /\ idx <= NumTerminals
    /\ LET t == terminals[idx]
       IN IF t.passengers # <<>> /\ t.queue # <<>>
          THEN LET loadingResult == loadTricycle(World(<<>>), idx, cur_time)
               IN IF Len(loadingResult.passengers) = 0
                  THEN Commit(loadingResult.w)
                  ELSE Commit(popTricycle(
                           process_passengers(loadingResult.w,
                               loadingResult.passengers, 1, cur_time),
                           idx))
          ELSE Commit(World(<<>>))
    /\ idx' = idx + 1
    /\ UNCHANGED <<cur_time, phase, call>>

\* process_frame, phase 4: one turn of the while loop of terminal idx
TerminalMatch ==
    /\ phase = "terminal"
    /\ idx <= NumTerminals
    /\ LET t == terminals[idx]
       IN IF t.passengers # <<>> /\ t.queue # <<>>
          THEN LET loadingResult == loadTricycle(World(<<>>), idx, cur_time)
               IN IF Len(loadingResult.passengers) = 0
                  THEN /\ Commit(loadingResult.w)
                       /\ idx' = idx + 1
                  ELSE /\ Commit(popTricycle(
                                process_passengers(loadingResult.w,
                                    loadingResult.passengers, 1, cur_time),
                                idx))
                       /\ idx' = idx
          ELSE /\ Commit(World(<<>>))
               /\ idx' = idx + 1
    /\ UNCHANGED <<cur_time, phase, call>>

\* Fault injection: a main loop that stops at the horizon only
EndFrame_ignoresCompletion ==
    /\ phase = "terminal"
    /\ idx > NumTerminals
    /\ cur_time' = cur_time + 1
    /\ phase' = IF cur_time + 1 < MaxTime THEN "claim" ELSE "done"
    /\ idx' = 1
    /\ UNCHANGED <<tricycles, passengers, terminals, map_passengers,
                   route_failures, call>>

\* process_frame's last line and the test of the main loop
EndFrame ==
    /\ phase = "terminal"
    /\ idx > NumTerminals
    /\ cur_time' = cur_time + 1
    /\ phase' = IF \A p \in Psgrs : passengers[p].status = "COMPLETED"
                THEN "done"
                ELSE IF cur_time + 1 < MaxTime THEN "claim" ELSE "done"
    /\ idx' = 1
    /\ UNCHANGED <<tricycles, passengers, terminals, map_passengers,
                   route_failures, call>>

Next == Claim \/ Offload \/ Load \/ Move \/ TerminalMatch \/ EndFrame

Spec == Init /\ [][Next]_vars

\* ------------------------------------- the status machine on its own ---
\* A driver that asks vehicles for status changes, any request at any time,
\* starting from the vehicles of a freshly built simulation
TerminalPassengers == [p \in Psgrs |-> [road |-> FALSE, src |-> 0, dest |-> MaxPos]]

InitStatus ==
    \E trikeCfg \in [Trikes -> TrikeSetups] :
        LET w == Setup(trikeCfg, TerminalPassengers)
        IN /\ tricycles = w.tricycles
           /\ passengers = w.passengers
           /\ terminals = w.terminals
           /\ map_passengers = w.map_passengers
           /\ route_failures = w.route_failures
           /\ cur_time = 0
           /\ phase = "status"
           /\ idx = 1
           /\ call = NoCall

\* trike.updateStatus(new_status)
UpdateStatusRequest ==
    /\ phase = "status"
    /\ \E v \in Trikes, new_status \in TricycleStatus :
         LET r == updateStatusCall(tricycles[v].status, new_status)
         IN /\ tricycles' = [tricycles EXCEPT ![v].status = r.status]
            /\ call' = [NoCall EXCEPT !.op = "updateStatus", !.trike = v,
                                      !.status = tricycles[v].status,
                                      !.new_status = new_status, !.ok = r.ok]
    /\ UNCHANGED <<passengers, terminals, map_passengers, cur_time, phase, idx,
                   route_failures>>

NextStatus == UpdateStatusRequest

SpecStatus == InitStatus /\ [][NextStatus]_vars

\* ------------------------------------------- the methods on their own ---
\* A driver that calls the methods of vehicles directly, as a unit test of
\* the entities does, on the objects of a freshly built simulation: it lets
\* a vehicle claim, fills vehicles the way a terminal does (loadPassenger),
\* moves them and lets them try to load. The planner answers every query.
DriverTrikes ==
    [v \in Trikes |-> [isRoaming |-> TRUE, start |-> 1, path |-> <<1, MaxPos>>,
                       reply |-> "ok"]]

InitDriver ==
    \E trikeCfg \in {DriverTrikes},
       psgrCfg \in PassengerConfigs :
        LET w == Setup(trikeCfg, psgrCfg)
        IN /\ tricycles = w.tricycles
           /\ passengers = w.passengers
           /\ terminals = w.terminals
           /\ map_passengers = w.map_passengers
           /\ route_failures = w.route_failures
           /\ cur_time = 0
           /\ phase = "driver"
           /\ idx = 1
           /\ call = NoCall

\* The vehicles the driver calls
Driven == {1}

\* trike.enqueueNearbyPsgrBetter(cur_time)
DriverEnqueue ==
    /\ phase = "driver"
    /\ \E v \in Driven :
         /\ Commit(enqueueNearbyPsgrBetter(World(<<>>), v, cur_time, TRUE))
         /\ call' = [NoCall EXCEPT !.op = "enqueueNearbyPsgrBetter", !.trike = v]
    /\ UNCHANGED <<cur_time, phase, idx>>

\* trike.loadPassenger(p, cur_time) for a passenger that waits
DriverLoadPassenger ==
    /\ phase = "driver"
    /\ \E v \in Driven, p \in Psgrs :
         /\ passengers[p].status = "WAITING"
         /\ LET l == loadPassenger(World(<<>>), v, p, cur_time)
            IN /\ Commit(l.w)
               /\ call' = [NoCall EXCEPT !.op = "loadPassenger", !.trike = v,
                                         !.passenger = p, !.ok = l.ok]
    /\ UNCHANGED <<cur_time, phase, idx>>

\* trike.moveTrike(cur_time)
DriverMove ==
    /\ phase = "driver"
    /\ \E v \in Driven :
         /\ Commit(moveTrike(World(<<>>), v).w)
         /\ call' = [NoCall EXCEPT !.op = "moveTrike", !.trike = v]
    /\ UNCHANGED <<cur_time, phase, idx>>

\* trike.tryLoad(cur_time)
DriverTryLoad ==
    /\ phase = "driver"
    /\ \E v \in Driven :
         /\ Commit(tryLoad(World(<<>>), v, cur_time).w)
         /\ call' = [NoCall EXCEPT !.op = "tryLoad", !.trike = v]
    /\ UNCHANGED <<cur_time, phase, idx>>

NextDriver == DriverEnqueue \/ DriverLoadPassenger \/ DriverMove \/ DriverTryLoad

SpecDriver == InitDriver /\ [][NextDriver]_vars

\* The same driver with a planner that may refuse: the vehicle looks for a
\* passenger with either answer of the planner to the route test of
\* is_en_route and any reply to the route update that follows; call.ok
\* records the answer to the route test
DriverProbe ==
    /\ phase = "driver"
    /\ \E v \in Driven, rs \in Oracles(1), routeFound \in BOOLEAN :
         /\ Commit(enqueueNearbyPsgrBetter(World(rs), v, cur_time, routeFound))
         /\ call' = [NoCall EXCEPT !.op = "enqueueNearbyPsgrBetter",
                                   !.trike = v, !.ok = routeFound]
    /\ UNCHANGED <<cur_time, phase, idx>>

NextClaim == DriverProbe \/ DriverLoadPassenger \/ DriverMove \/ DriverTryLoad

SpecClaim == InitDriver /\ [][NextClaim]_vars

\* A driver that calls updatePath and scheduleNextPassenger directly, with
\* every destination, every merge policy and every reply of the planner, on
\* a roaming vehicle that claims, is filled and moves. One passenger is on
\* the road, the others at the terminal. The call records the destination,
\* the policy, the result and the number of replies the planner gave;
\* queues stay within MaxToGo points and the driver stops redirecting a
\* vehicle that has travelled MaxTravel cells.
PathConfigs ==
    {f \in PassengerConfigs :
        /\ f[1].road
        /\ \A i \in Psgrs \ {1} : ~f[i].road /\ f[i].dest = MaxPos}

InitPath ==
    \E trikeCfg \in {DriverTrikes}, psgrCfg \in PathConfigs :
        LET w == Setup(trikeCfg, psgrCfg)
        IN /\ tricycles = w.tricycles
           /\ passengers = w.passengers
           /\ terminals = w.terminals
           /\ map_passengers = w.map_passengers
           /\ route_failures = w.route_failures
           /\ cur_time = 0
           /\ phase = "driver"
           /\ idx = 1
           /\ call = NoCall

Priorities == {"replace", "front", "append"}

PathCall(op, v, dest, priority, rs, r) ==
    [op |-> op, trike |-> v, dest |-> dest, priority |-> priority,
     ok |-> r.ok, asked |-> Len(rs) - Len(r.w.oracle)]

\* trike.updatePath(new_destination, priority)
DriverUpdatePath ==
    /\ phase = "driver"
    /\ \E v \in Driven, dest \in Pos, priority \in Priorities,
          rs \in Oracles(1) :
         \E r \in {updatePath(World(rs), v, dest, priority)} :
            /\ tricycles[v].totalDistance < MaxTravel
            /\ Len(r.w.tricycles[v].to_go) <= MaxToGo
            /\ Commit(r.w)
            /\ call' = PathCall("updatePath", v, dest, priority, rs, r)
    /\ UNCHANGED <<cur_time, phase, idx>>

\* trike.scheduleNextPassenger() on a vehicle with a passenger on board
DriverScheduleNext ==
    /\ phase = "driver"
    /\ \E v \in Driven, rs \in Oracles(1) :
         /\ hasPassenger(tricycles[v])
         /\ tricycles[v].totalDistance < MaxTravel
         /\ LET p == smart_scheduler(World(rs), tricycles[v].pos,
                                     tricycles[v].passengers).next_passenger
                r == updatePath(World(rs), v, passengers[p].dest, "front")
            IN \E done \in {scheduleNextPassenger(World(rs), v)} :
                  /\ Len(done.tricycles[v].to_go) <= MaxToGo
                  /\ Commit(done)
                  /\ call' = PathCall("scheduleNextPassenger", v,
                                      passengers[p].dest, "front", rs, r)
    /\ UNCHANGED <<cur_time, phase, idx>>

\* trike.loadPassenger(p, cur_time) for the passenger at the head of the
\* terminal's queue, as the terminal does
DriverFill ==
    /\ phase = "driver"
    /\ \E v \in Driven, p \in {Head(terminals[1].passengers)} :
         /\ passengers[p].status = "WAITING"
         /\ LET l == loadPassenger(World(<<>>), v, p, cur_time)
            IN /\ Commit(l.w)
               /\ call' = [NoCall EXCEPT !.op = "loadPassenger", !.trike = v,
                                         !.passenger = p, !.ok = l.ok]
    /\ UNCHANGED <<cur_time, phase, idx>>

NextPath ==
    \/ DriverUpdatePath \/ DriverScheduleNext
    \/ DriverEnqueue \/ DriverFill \/ DriverMove

SpecPath == InitPath /\ [][NextPath]_vars

\* ------------------------------------------------ scheduler driver ---
\* Direct calls of the scheduling policy: vehicle 1 stands at any cell with
\* one to MaxOnboard passengers on board, bound for any cells; it is then
\* scheduled, moved and unloaded until it is empty
InitScheduler ==
    \E pos \in Pos, n \in 1..MaxOnboard, dest \in [1..MaxOnboard -> Pos] :
        /\ \A i \in (n + 1)..MaxOnboard : dest[i] = 0
        /\ tricycles = [v \in Trikes |->
              IF v = 1
              THEN [NewTricycle(TRUE, pos) EXCEPT
                        !.capacity = MaxOnboard,
                        !.passengers = [i \in 1..n |-> i],
                        !.status = "SERVING"]
              ELSE NewTricycle(TRUE, pos)]
        /\ passengers = [p \in Psgrs |->
              IF p <= n
              THEN [onLoad(onEnqueue(NewPassenger(pos, dest[p]), 1, 0), 1, 0)
                        EXCEPT !.status = "ONBOARD"]
              ELSE NewPassenger(0, 0)]
        /\ terminals = EmptyWorld.terminals
        /\ map_passengers = <<>>
        /\ route_failures = 0
        /\ cur_time = 0
        /\ phase = "scheduler"
        /\ idx = 1
        /\ call = NoCall

\* trike.scheduleNextPassenger(), when the vehicle has nowhere to go
DriverSchedule ==
    /\ phase = "scheduler"
    /\ hasPassenger(tricycles[1])
    /\ tricycles[1].to_go = <<>>
    /\ \E rs \in Oracles(1) :
         LET chosen == smart_scheduler(World(rs), tricycles[1].pos,
                                       tricycles[1].passengers)
         IN /\ Commit(scheduleNextPassenger(World(rs), 1))
            /\ call' = [NoCall EXCEPT !.op = "scheduleNextPassenger",
                                      !.trike = 1,
                                      !.index = chosen.start_index,
                                      !.passenger = chosen.next_passenger]
    /\ UNCHANGED <<cur_time, phase, idx>>

\* trike.moveTrike(cur_time)
DriverScheduleMove ==
    /\ phase = "scheduler"
    /\ tricycles[1].to_go # <<>>
    /\ Commit(moveTrike(World(<<>>), 1).w)
    /\ call' = [NoCall EXCEPT !.op = "moveTrike", !.trike = 1]
    /\ UNCHANGED <<cur_time, phase, idx>>

\* trike.tryOffload(cur_time), at a point where it drops someone
DriverScheduleOffload ==
    /\ phase = "scheduler"
    /\ \E i \in 1..Len(tricycles[1].passengers) :
          haversine(tricycles[1].pos, passengers[tricycles[1].passengers[i]].dest)
             <= DROPOFF_RADIUS
    /\ \E rs \in Oracles(1) : Commit(tryOffload(World(rs), 1, cur_time))
    /\ call' = [NoCall EXCEPT !.op = "tryOffload", !.trike = 1]
    /\ UNCHANGED <<cur_time, phase, idx>>

NextScheduler == DriverSchedule \/ DriverScheduleMove \/ DriverScheduleOffload

SpecScheduler == InitScheduler /\ [][NextScheduler]_vars

\* ----------------------------------------------------- move driver ---
\* Direct calls of moveTrike: vehicle 1 stands at any cell in any status,
\* with any queue of at most MaxQueue points, empty or carrying passenger 1
Queues == UNION {[1..n -> Pos] : n \in 0..MaxQueue}

InitMove ==
    \E pos \in Pos, status \in TricycleStatus, to_go \in Queues,
       isRoaming \in BOOLEAN, onboard \in {<<>>, <<1>>} :
        /\ tricycles = [v \in Trikes |->
              IF v = 1
              THEN [NewTricycle(isRoaming, pos) EXCEPT
                        !.status = status, !.to_go = to_go,
                        !.passengers = onboard]
              ELSE NewTricycle(FALSE, 0)]
        /\ passengers = [p \in Psgrs |->
              IF p = 1 /\ onboard # <<>>
              THEN [onLoad(onEnqueue(NewPassenger(pos, MaxPos), 1, 0), 1, 0)
                        EXCEPT !.status = "ONBOARD"]
              ELSE NewPassenger(0, 0)]
        /\ terminals = EmptyWorld.terminals
        /\ map_passengers = <<>>
        /\ route_failures = 0
        /\ cur_time = 0
        /\ phase = "mover"
        /\ idx = 1
        /\ call = NoCall

\* trike.moveTrike(cur_time)
DriverMoveTrike ==
    /\ phase = "mover"
    /\ LET r == moveTrike(World(<<>>), 1)
       IN /\ Commit(r.w)
          /\ call' = [NoCall EXCEPT !.op = "moveTrike", !.trike = 1,
                                    !.status = tricycles[1].status,
                                    !.ok = r.time_taken # 0]
    /\ UNCHANGED <<cur_time, phase, idx>>

NextMove == DriverMoveTrike

SpecMove == InitMove /\ [][NextMove]_vars

\* ------------------------------------------------- configuration ---
\* The construction of a Simulator: `call` holds the arguments of the
\* constructor, the roaming chance in ten-thousandths and the two
\* distributions as lists of weights
Counts == -1..MaxCount
Chances == {0, ChanceOne \div 2, ChanceOne - (ChanceTolerance \div 2), ChanceOne}
Distribs == {[i \in 1..n |-> 1] : n \in 0..MaxCount}

\* Simulator.__init__, the validation: TRUE when ImproperConfig is raised
ImproperConfig(c) ==
    \/ c.totalTerminals < 0
    \/ c.totalPassengers < 0
    \/ c.totalTrikes < 0
    \/ /\ c.totalTerminals = 0
       /\ c.roamingTrikeChance < ChanceOne
       /\ Abs(c.roamingTrikeChance - ChanceOne) > ChanceTolerance
    \/ /\ Len(c.terminalPassengerDistrib) # 0
       /\ Len(c.terminalPassengerDistrib) # c.totalTerminals
    \/ /\ Len(c.terminalTrikeDistrib) # 0
       /\ Len(c.terminalTrikeDistrib) # c.totalTrikes

InitConfig ==
    /\ call \in [op : {"Simulator"}, totalTrikes : Counts,
                  totalTerminals : Counts, totalPassengers : Counts,
                  roamingTrikeChance : Chances,
                  terminalPassengerDistrib : Distribs,
                  terminalTrikeDistrib : Distribs]
    /\ tricycles = <<>>
    /\ passengers = <<>>
    /\ terminals = <<>>
    /\ map_passengers = <<>>
    /\ route_failures = 0
    /\ cur_time = 0
    /\ phase = "config"
    /\ idx = 1

\* Simulator(...): the constructor returns or raises ImproperConfig
Construct ==
    /\ phase = "config"
    /\ phase' = IF ImproperConfig(call) THEN "ImproperConfig" ELSE "constructed"
    /\ UNCHANGED <<tricycles, passengers, terminals, map_passengers, cur_time,
                   idx, route_failures, call>>

\* simulator.run(...), up to the first tick: the entities are generated
ConfigRun ==
    /\ phase = "constructed"
    /\ terminals' = [t \in 1..call.totalTerminals |->
                       [location |-> 0, queue |-> <<>>, passengers |-> <<>>]]
    /\ tricycles' = [v \in 1..call.totalTrikes |-> NewTricycle(TRUE, 1)]
    /\ passengers' = [p \in 1..call.totalPassengers |-> NewPassenger(1, MaxPos)]
    /\ map_passengers' = [p \in 1..call.totalPassengers |-> p]
    /\ phase' = "generated"
    /\ UNCHANGED <<cur_time, idx, route_failures, call>>

NextConfig == Construct \/ ConfigRun

SpecConfig == InitConfig /\ [][NextConfig]_vars

\* =========================================================== properties ===
\* The end of a tick: the four phases are over and the next has not begun
TickBoundary == phase \in {"claim", "done"} /\ idx = 1

\* C1: no vehicle ever carries more passengers than its capacity, at the
\* tick boundaries and at every point between them
C1_CapacityRespected ==
    \A v \in Trikes : Len(tricycles[v].passengers) <= Capacity

\* A tick has ended with a full vehicle while its terminal still holds a
\* passenger the vehicle refused
C1_Witness ==
    /\ TickBoundary /\ cur_time > 0
    /\ \E v \in Trikes : Len(tricycles[v].passengers) = Capacity
    /\ \E t \in Terms : terminals[t].passengers # <<>>

\* C2: after every passenger transition, claimed_by is set exactly when the
\* passenger is ENQUEUED or ONBOARD
C2_ClaimedIffHeld ==
    \A p \in Psgrs :
        (passengers[p].claimed_by # None)
            <=> (passengers[p].status \in {"ENQUEUED", "ONBOARD"})

\* The passenger status changes the specification allows
LegalPassengerEdges ==
    {<<"WAITING", "ENQUEUED">>, <<"ENQUEUED", "ONBOARD">>,
     <<"ONBOARD", "COMPLETED">>, <<"ENQUEUED", "WAITING">>}

\* C3: every change of a passenger's status, by proximity pickup or by
\* terminal matching, follows WAITING->ENQUEUED, ENQUEUED->ONBOARD,
\* ONBOARD->COMPLETED or ENQUEUED->WAITING
C3_LegalTransitions ==
    [][\A p \in Psgrs :
          passengers'[p].status # passengers[p].status
              => <<passengers[p].status, passengers'[p].status>>
                     \in LegalPassengerEdges]_vars

\* The transition table of the specification
StatusTable ==
    {<<"IDLE", "SERVING">>, <<"IDLE", "TERMINAL">>, <<"IDLE", "ENQUEUING">>,
     <<"SERVING", "RETURNING">>, <<"SERVING", "ROAMING">>,
     <<"TERMINAL", "SERVING">>, <<"TERMINAL", "ENQUEUING">>,
     <<"ROAMING", "SERVING">>, <<"ROAMING", "ENQUEUING">>,
     <<"RETURNING", "TERMINAL">>, <<"RETURNING", "ENQUEUING">>,
     <<"ENQUEUING", "SERVING">>, <<"ENQUEUING", "ROAMING">>,
     <<"ENQUEUING", "IDLE">>}

\* C4: updateStatus sets the status and returns success exactly for the
\* pairs of the table; for every other pair, self-transitions included, it
\* leaves the status as it was and returns failure
C4_UpdateStatusFollowsTable ==
    [][\A v \in Trikes :
          (call'.op = "updateStatus" /\ call'.trike = v)
              => IF <<tricycles[v].status, call'.new_status>> \in StatusTable
                 THEN tricycles'[v].status = call'.new_status /\ call'.ok
                 ELSE tricycles'[v].status = tricycles[v].status /\ ~call'.ok]_vars

\* A self-transition was requested and refused
C4_Witness ==
    /\ call.op = "updateStatus"
    /\ call.status = call.new_status
    /\ ~call.ok
    /\ tricycles[call.trike].status = call.status

\* The vehicles whose outstanding claim is passenger p
Claimers(p) == {v \in Trikes : tricycles[v].enqueuedPassenger = p}

\* C5, first half: at every point of a run no passenger is the outstanding
\* claim of two vehicles
C5_ExclusiveClaim == \A p \in Psgrs : Cardinality(Claimers(p)) <= 1

\* C5, second half: a vehicle takes a passenger as its outstanding claim only
\* when the passenger is WAITING
C5_ClaimedWhileWaiting ==
    [][\A v \in Trikes, p \in Psgrs :
          (tricycles[v].enqueuedPassenger # p /\ tricycles'[v].enqueuedPassenger = p)
              => passengers[p].status = "WAITING"]_vars

\* C5: a claim is exclusive and made only on a WAITING passenger
C5_Claim == C5_ClaimedWhileWaiting /\ [](C5_ExclusiveClaim)

\* The claiming phase of a tick is over; one vehicle holds a passenger that
\* an empty, roaming, unclaiming vehicle has within its radius
C5_Witness ==
    /\ phase = "offload" /\ idx = 1
    /\ \E p \in Psgrs, v \in Trikes, u \in Trikes :
         /\ u # v
         /\ tricycles[v].enqueuedPassenger = p
         /\ passengers[p].status = "ENQUEUED"
         /\ passengers[p].claimed_by = v
         /\ tricycles[u].active /\ tricycles[u].isRoaming
         /\ tricycles[u].enqueuedPassenger = None
         /\ tricycles[u].passengers = <<>>
         /\ haversine(tricycles[u].pos, passengers[p].src) <= ENQUEUE_RADIUS

\* Vehicle v is active and has passenger p within its active radius
Near(v, p) ==
    /\ tricycles[v].active
    /\ haversine(tricycles[v].pos, passengers[p].src)
           <= (IF hasPassenger(tricycles[v])
               THEN S_ENQUEUE_RADIUS ELSE ENQUEUE_RADIUS)

\* At the turn of vehicle idx in phase 1, passenger p is WAITING, idx is the
\* earliest vehicle that has it within its radius, and a later one has it too
Contested(p) ==
    /\ phase = "claim"
    /\ passengers[p].status = "WAITING"
    /\ Near(idx, p)
    /\ \A u \in Trikes : u < idx => ~Near(u, p)
    /\ \E u \in Trikes : u > idx /\ Near(u, p)

\* Vehicle idx takes passenger p in the step
ClaimsInStep(p) ==
    /\ tricycles'[idx].enqueuedPassenger = p
    /\ passengers'[p].status = "ENQUEUED"
    /\ passengers'[p].claimed_by = idx

\* A vehicle later than the first does not newly claim a passenger that is
\* not WAITING at its turn
LaterVehiclesSkip ==
    \A p \in Psgrs :
        (phase = "claim" /\ idx > 1 /\ passengers[p].status # "WAITING")
            => (tricycles'[idx].enqueuedPassenger = p
                    => tricycles[idx].enqueuedPassenger = p)

\* C6 as stated: of the active vehicles that have a WAITING passenger within
\* their radius in a tick, the earliest in creation order claims it, and
\* later vehicles do not claim a passenger that is no longer WAITING
C6_EarliestClaims ==
    [][(\A p \in Psgrs : Contested(p) => ClaimsInStep(p))
       /\ LaterVehiclesSkip]_vars

\* Vehicle idx probes: roaming or SERVING, no outstanding claim, a free seat
Probes ==
    LET trike == tricycles[idx]
    IN /\ trike.isRoaming \/ trike.status = "SERVING"
       /\ trike.enqueuedPassenger = None
       /\ Len(trike.passengers) < Capacity

\* Passenger p is the one vehicle idx selects: the nearest WAITING passenger
\* of the map within its radius, the first in map order among equals
Selected(p) ==
    LET trike == tricycles[idx]
        waiting == SelectSeq(map_passengers,
                     LAMBDA q : passengers[q].status = "WAITING" /\ Near(idx, q))
    IN /\ waiting # <<>>
       /\ \A i \in 1..Len(waiting) :
             LET q == waiting[i]
                 dq == haversine(trike.pos, passengers[q].src)
                 dp == haversine(trike.pos, passengers[p].src)
             IN q # p => (dp < dq \/ (dp = dq /\ \E j \in 1..(i - 1) : waiting[j] = p))
       /\ \E i \in 1..Len(waiting) : waiting[i] = p

\* The claim policy admits p: the vehicle is empty, or p's destination lies
\* on the way to the vehicle's next waypoint
Admitted(p) ==
    LET trike == tricycles[idx]
    IN \/ trike.passengers = <<>>
       \/ /\ trike.to_go # <<>>
          /\ is_en_route(trike.pos, trike.to_go[1], passengers[p].dest)

\* C6, amended: the earliest vehicle that has a contested passenger within
\* its radius claims it provided it probes, selects and admits that
\* passenger and the planner answers its queries; later vehicles do not
\* claim a passenger that is no longer WAITING
C6_EarliestEligibleClaims ==
    [][(\A p \in Psgrs :
           (/\ Contested(p) /\ Probes /\ Selected(p) /\ Admitted(p)
            /\ route_failures' = route_failures)
               => ClaimsInStep(p))
       /\ LaterVehiclesSkip]_vars

\* The claiming phase of a tick has ended: the first vehicle claimed in this
\* tick a passenger that a later roaming vehicle has within its radius too
C6_Witness ==
    /\ phase = "offload" /\ idx = 1
    /\ \E p \in Psgrs, u \in Trikes :
         /\ u > 1
         /\ tricycles[1].enqueuedPassenger = p
         /\ passengers[p].status = "ENQUEUED"
         /\ Last(passengers[p].events) = Event("ENQUEUE", 1, cur_time)
         /\ Near(1, p) /\ Near(u, p)
         /\ tricycles[u].isRoaming
         /\ tricycles[u].enqueuedPassenger # p

\* The passengers vehicle v has claimed and not yet loaded
ClaimedNotLoaded(v) ==
    {p \in Psgrs : passengers[p].status = "ENQUEUED"
                     /\ passengers[p].claimed_by = v}

\* C7: at every point of a run a vehicle has at most one passenger that is
\* ENQUEUED with claimed_by naming that vehicle
C7_OneClaimPerVehicle ==
    \A v \in Trikes : Cardinality(ClaimedNotLoaded(v)) <= 1

\* The claiming phase of a tick has ended: a roaming vehicle still holds the
\* passenger it claimed in an earlier tick, and has left a WAITING passenger
\* within its radius unclaimed
C7_Witness ==
    /\ phase = "offload" /\ idx = 1
    /\ \E v \in Trikes, p \in Psgrs, q \in Psgrs :
         /\ p \in ClaimedNotLoaded(v)
         /\ tricycles[v].enqueuedPassenger = p
         /\ Last(passengers[p].events).time < cur_time
         /\ tricycles[v].isRoaming
         /\ q # p
         /\ passengers[q].status = "WAITING"
         /\ Near(v, q)

\* C8: the timestamps of a passenger's event log never decrease along the
\* log, and a COMPLETED passenger was picked up no earlier than it was
\* created and dropped no earlier than it was picked up
C8_TimesOrdered ==
    \A p \in Psgrs :
        LET e == passengers[p].events
        IN /\ \A i \in 1..Len(e), j \in 1..Len(e) :
                i < j => e[i].time <= e[j].time
           /\ passengers[p].status = "COMPLETED"
                => /\ passengers[p].pickupTime >= passengers[p].createTime
                   /\ passengers[p].deathTime >= passengers[p].pickupTime

\* A passenger claimed on the road, loaded later and dropped later still
C8_Witness ==
    \E p \in Psgrs :
        LET e == passengers[p].events
        IN /\ passengers[p].status = "COMPLETED"
           /\ passengers[p].pickupTime > passengers[p].createTime
           /\ passengers[p].deathTime > passengers[p].pickupTime
           /\ Len(e) >= 4
           /\ e[2].type = "ENQUEUE"
           /\ e[Len(e)].type = "DROP-OFF"
           /\ e[Len(e)].time > e[2].time

\* Vehicle v runs tryLoad in the step: in phase 2 of a tick, or called directly
TryLoadBy(v) ==
    \/ phase = "load" /\ idx = v
    \/ phase = "driver" /\ call'.op = "tryLoad" /\ call'.trike = v

\* Vehicle v stands at the source of passenger p, which it has claimed and
\* which is still on the map, with every seat taken
FullAtClaimed(v, p) ==
    /\ passengers[p].status = "ENQUEUED"
    /\ passengers[p].claimed_by = v
    /\ \E i \in 1..Len(map_passengers) : map_passengers[i] = p
    /\ isAtLocation(tricycles[v].pos, passengers[p].src)
    /\ Len(tricycles[v].passengers) = Capacity

\* C9: a vehicle that tries to load at the source of a passenger it has
\* claimed while all its seats are taken does not load it: the passenger is
\* WAITING again, its claimed_by is cleared and its log has grown by exactly
\* one RESET event
C9_FullVehicleResetsClaim ==
    [][\A v \in Trikes, p \in Psgrs :
          (TryLoadBy(v) /\ FullAtClaimed(v, p))
              => /\ tricycles'[v].passengers = tricycles[v].passengers
                 /\ passengers'[p].status = "WAITING"
                 /\ passengers'[p].claimed_by = None
                 /\ passengers'[p].events
                        = Append(passengers[p].events,
                                 Event("RESET", v, cur_time))]_vars

\* tryLoad has just been called on a full vehicle and has reset a passenger
\* the vehicle had claimed and now stands at
C9_Witness ==
    /\ call.op = "tryLoad"
    /\ Len(tricycles[call.trike].passengers) = Capacity
    /\ \E p \in Psgrs :
         /\ passengers[p].status = "WAITING"
         /\ passengers[p].claimed_by = None
         /\ isAtLocation(tricycles[call.trike].pos, passengers[p].src)
         /\ Len(passengers[p].events) >= 3
         /\ Last(passengers[p].events) = Event("RESET", call.trike, cur_time)
         /\ passengers[p].events[Len(passengers[p].events) - 1]
                = Event("ENQUEUE", call.trike, cur_time)

\* Terminal t has a vehicle and a passenger queued
Matchable(t) == terminals[t].passengers # <<>> /\ terminals[t].queue # <<>>

\* C10: one call of terminal matching on a terminal with a vehicle and a
\* passenger queued loads the longest prefix of the passenger queue that
\* fits into the head vehicle, in queue order; exactly those passengers
\* leave the terminal queue and the others keep their order; the head
\* vehicle leaves the terminal and becomes active exactly when it took a
\* passenger
C10_TerminalMatching ==
    [][(phase = "terminal" /\ idx <= NumTerminals /\ Matchable(idx))
          => LET t == terminals[idx]
                 head == t.queue[1]
                 free == Capacity - Len(tricycles[head].passengers)
                 k == Min(IF free > 0 THEN free ELSE 0, Len(t.passengers))
             IN /\ tricycles'[head].passengers
                      = tricycles[head].passengers \o SubSeq(t.passengers, 1, k)
                /\ terminals'[idx].passengers
                      = SubSeq(t.passengers, k + 1, Len(t.passengers))
                /\ \A v \in Trikes \ {head} :
                      tricycles'[v].passengers = tricycles[v].passengers
                /\ IF k > 0
                   THEN /\ terminals'[idx].queue = Tail(t.queue)
                        /\ tricycles'[head].active
                   ELSE /\ terminals'[idx].queue = t.queue
                        /\ tricycles'[head].active = tricycles[head].active]_vars

\* A terminal matching has just filled a vehicle and released it, and the
\* passengers that did not fit are still queued behind, in creation order
C10_Witness ==
    /\ phase = "terminal" /\ idx <= NumTerminals
    /\ \E v \in Trikes :
         /\ tricycles[v].active
         /\ Len(tricycles[v].passengers) = Capacity
         /\ \A i \in 1..Capacity :
               Last(passengers[tricycles[v].passengers[i]].events)
                   = Event("LOAD", v, cur_time)
         /\ \A i \in 1..Len(terminals[idx].queue) : terminals[idx].queue[i] # v
         /\ terminals[idx].passengers # <<>>
         /\ tricycles[v].passengers \o terminals[idx].passengers
                = [i \in 1..NumPassengers |-> i]

\* ------------------------------------- one vehicle, one passenger ---
\* The scenario of one vehicle of capacity 1 and one passenger it can reach,
\* with a planner that always returns a route: the last vehicle and the last
\* passenger are set up as Simulator.run does, every other vehicle has
\* finished and every other passenger is COMPLETED and off the map, and the
\* planner has no failure left to report
TheTrike == NumTrikes
ThePassenger == NumPassengers

\* The passenger is within the vehicle's reach: in the claim radius of a
\* roaming vehicle, or at the terminal of a terminal vehicle
WithinReach(t, p) ==
    IF t.isRoaming
    THEN haversine(t.start, IF p.road THEN p.src ELSE TerminalLocation[1])
            <= ENQUEUE_RADIUS
    ELSE ~p.road

\* The hotspots of the scenario: any valid point of the map can be one
SingleHotspots == {0} \cup Hotspots

\* The vehicle of the scenario: a terminal vehicle, or a roaming vehicle
\* that starts at a hotspot and gets its first roam path
SingleSetups ==
    {c \in TrikeSetups : c.reply = "ok"}
    \cup [isRoaming : {TRUE}, start : SingleHotspots, path : RoamPaths,
          reply : {"ok"}]

InitSingle ==
    \E t \in SingleSetups, p \in PassengerSetups :
        LET idle == [w \in {EmptyWorld} |->
                       [w EXCEPT
                          !.tricycles = [v \in Trikes |->
                              [NewTricycle(FALSE, 0) EXCEPT !.active = FALSE,
                                                            !.finished = TRUE]],
                          !.passengers = [q \in Psgrs |->
                              [NewPassenger(0, 0) EXCEPT !.status = "COMPLETED"]]]
                      ][EmptyWorld]
            w == setupPassengers(
                    setupTricycles(idle, TheTrike, [v \in Trikes |-> t]),
                    ThePassenger, [q \in Psgrs |-> p])
        IN /\ WithinReach(t, p)
           /\ tricycles = [w.tricycles EXCEPT ![TheTrike].capacity = 1]
           /\ passengers = w.passengers
           /\ terminals = w.terminals
           /\ map_passengers = w.map_passengers
           /\ route_failures = MaxRouteFailures
           /\ cur_time = 0
           /\ phase = IF 0 < MaxTime THEN "claim" ELSE "done"
           /\ idx = 1
           /\ call = NoCall

\* The simulator is sequential code and every planner query returns: a run
\* that can take a step takes it
SpecSingle == InitSingle /\ [][Next]_vars /\ WF_vars(Next)

\* ------------------------------------ a hotspot at the terminal ---
\* The simulator with a hotspot that lies at the terminal: the fixed
\* hotspots and the terminals are independent lists of points of the same
\* map, and nothing keeps them apart. At least one roaming vehicle starts
\* at that hotspot; the planner answers every query of the setup.
OverlapConfigs ==
    {f \in [Trikes -> SingleSetups] :
        \E v \in Trikes : f[v].isRoaming /\ f[v].start = TerminalLocation[1]}

InitOverlap ==
    \E trikeCfg \in OverlapConfigs, psgrCfg \in PassengerConfigs :
        LET w == Setup(trikeCfg, psgrCfg)
        IN /\ tricycles = w.tricycles
           /\ passengers = w.passengers
           /\ terminals = w.terminals
           /\ map_passengers = w.map_passengers
           /\ route_failures = w.route_failures
           /\ cur_time = 0
           /\ phase = IF 0 < MaxTime THEN "claim" ELSE "done"
           /\ idx = 1
           /\ call = NoCall

SpecOverlap == InitOverlap /\ [][Next]_vars

\* Every passenger has been delivered
AllCompleted == \A p \in Psgrs : passengers[p].status = "COMPLETED"

\* A tick is about to run only before the horizon and, after the first tick,
\* only if some passenger was not COMPLETED when the last tick ended
TicksOnlyWhenDue ==
    (phase = "claim" /\ idx = 1)
        => (cur_time < MaxTime /\ (cur_time > 0 => ~AllCompleted))

\* Turns the loop of phase 4 can still take from terminal t on, one per
\* queued vehicle and one to leave each terminal
RECURSIVE TerminalTurnsLeft(_)
TerminalTurnsLeft(t) ==
    IF t > NumTerminals THEN 0
    ELSE Len(terminals[t].queue) + 1 + TerminalTurnsLeft(t + 1)

\* The most steps phase 4 and the end of the tick can take
TerminalTurnsMax == NumTerminals * (NumTrikes + 1) + 1

\* The most steps one tick can take
TickStepsMax == 4 * NumTrikes + TerminalTurnsMax

\* An upper bound of the steps left in the current tick
TickStepsLeft ==
    CASE phase = "claim"    -> TickStepsMax - (idx - 1)
      [] phase = "offload"  -> TickStepsMax - NumTrikes - 2 * (idx - 1)
      [] phase = "load"     -> TickStepsMax - NumTrikes - 2 * (idx - 1) - 1
      [] phase = "move"     -> TickStepsMax - 3 * NumTrikes - (idx - 1)
      [] phase = "terminal" -> TerminalTurnsLeft(idx) + 1
      [] OTHER              -> 0

\* A variant of the main loop: the steps the run can still take
LoopVariant ==
    IF phase = "done" THEN 0
    ELSE (MaxTime - cur_time - 1) * TickStepsMax + TickStepsLeft

\* C11: the tick loop terminates (every step decreases a variant that is
\* never negative); no tick
\* runs once the horizon is reached or after a tick has ended with every
\* passenger COMPLETED, and nothing runs after the loop has ended
C11_LoopTerminates ==
    /\ [](TicksOnlyWhenDue /\ LoopVariant >= 0)
    /\ [][phase # "done" /\ LoopVariant' < LoopVariant]_vars

\* The loop has ended before the horizon, every passenger being COMPLETED
C11_Witness ==
    /\ phase = "done"
    /\ 0 < cur_time /\ cur_time < MaxTime
    /\ AllCompleted

\* The order of the steps of a tick: every vehicle in phase 1, then every
\* vehicle in phase 2 (unloading then loading), then every vehicle in phase
\* 3, then every terminal in phase 4
PhaseOrder ==
    /\ phase = "claim" =>
          \/ idx < NumTrikes /\ phase' = "claim" /\ idx' = idx + 1
          \/ idx = NumTrikes /\ phase' = "offload" /\ idx' = 1
    /\ phase = "offload" =>
          \/ tricycles[idx].active /\ phase' = "load" /\ idx' = idx
          \/ ~tricycles[idx].active /\ idx < NumTrikes
                /\ phase' = "offload" /\ idx' = idx + 1
          \/ ~tricycles[idx].active /\ idx = NumTrikes
                /\ phase' = "move" /\ idx' = 1
    /\ phase = "load" =>
          \/ idx < NumTrikes /\ phase' = "offload" /\ idx' = idx + 1
          \/ idx = NumTrikes /\ phase' = "move" /\ idx' = 1
    /\ phase = "move" =>
          \/ idx < NumTrikes /\ phase' = "move" /\ idx' = idx + 1
          \/ idx = NumTrikes /\ phase' = "terminal" /\ idx' = 1
    /\ phase = "terminal" =>
          \/ idx <= NumTerminals /\ phase' = "terminal" /\ idx' \in {idx, idx + 1}
          \/ idx > NumTerminals /\ phase' \in {"claim", "done"} /\ idx' = 1

\* What each phase may do: claims are made in phase 1 only, passengers board
\* in phase 2 and phase 4 only, vehicles change position in phase 3 only,
\* and time advances by one only when phase 4 has served every terminal
PhaseEffects ==
    /\ \A p \in Psgrs :
          /\ (passengers[p].status # "ENQUEUED" /\ passengers'[p].status = "ENQUEUED")
                => phase = "claim"
          /\ (passengers[p].status # "ONBOARD" /\ passengers'[p].status = "ONBOARD")
                => phase \in {"load", "terminal"}
    /\ \A v \in Trikes :
          tricycles'[v].pos # tricycles[v].pos => (phase = "move" /\ idx = v)
    /\ \/ cur_time' = cur_time
       \/ cur_time' = cur_time + 1 /\ phase = "terminal" /\ idx > NumTerminals
    /\ (phase = "terminal" /\ idx > NumTerminals) => cur_time' = cur_time + 1

\* C12: in every tick the phases run in the order claim, unload/load, move,
\* terminal matching, each over all vehicles (or terminals) before the next
\* starts, and time advances exactly once, after phase 4
C12_PhaseOrder == [][PhaseOrder /\ PhaseEffects]_vars

\* A second tick is in its move phase after a passenger has boarded
C12_Witness ==
    /\ phase = "move" /\ idx = NumTrikes /\ cur_time >= 1
    /\ \E p \in Psgrs : passengers[p].status = "ONBOARD"
    /\ \E v \in Trikes : tricycles[v].totalDistance > 0

\* The ticks of claiming, of reaching the pickup point from within the
\* claim radius, and of loading
PickupTicks == (ENQUEUE_RADIUS \div Speed) + 1

\* The ticks implied by the route from source to destination
RouteTicks(p) == haversine(passengers[p].src, passengers[p].dest) \div Speed

\* C13: with one vehicle of capacity 1, one WAITING passenger within its
\* reach and a planner that always returns a route, the passenger reaches
\* COMPLETED, after at most the ticks of the route from source to
\* destination plus the ticks of claim and load.  The deadline is missed
\* when the destination is the last point of the vehicle's pending roam
\* route: updatePath then keeps the pending route, which leads back to the
\* point the vehicle left for the pickup
C13_Delivered ==
    /\ <>(passengers[ThePassenger].status = "COMPLETED")
    /\ [](passengers[ThePassenger].status = "COMPLETED"
            => passengers[ThePassenger].deathTime
                  <= RouteTicks(ThePassenger) + PickupTicks)
    /\ [](passengers[ThePassenger].status # "COMPLETED"
            => cur_time <= RouteTicks(ThePassenger) + PickupTicks)

\* The total path length of visiting the destinations of the onboard
\* passengers of a vehicle in the order f of their indices
OrderLength(trike, f) ==
    pathLength(World(<<>>), trike.pos,
               [i \in 1..Len(trike.passengers) |-> trike.passengers[f[i]]], 1)

\* C14: the optimal scheduler, for a vehicle at a fixed position carrying N
\* passengers, returns (index, passenger) where passenger is
\* passengers[index] and is the first stop of a visiting order of all N
\* destinations that is no longer than any other permutation
C14_OptimalScheduler ==
    [][call'.op = "scheduleNextPassenger" =>
         LET trike == tricycles[call'.trike]
             n == Len(trike.passengers)
         IN /\ call'.index \in 1..n
            /\ call'.passenger = trike.passengers[call'.index]
            /\ \E f \in IndexOrders(n) :
                  /\ f[1] = call'.index
                  /\ \A g \in IndexOrders(n) :
                        OrderLength(trike, f) <= OrderLength(trike, g)]_vars

\* The scheduler has chosen the last of three passengers, and the vehicle
\* heads for that passenger's destination
C14_Witness ==
    /\ call.op = "scheduleNextPassenger"
    /\ Len(tricycles[1].passengers) = MaxOnboard
    /\ call.index = MaxOnboard
    /\ tricycles[1].to_go # <<>>
    /\ Last(tricycles[1].to_go) = passengers[call.passenger].dest

\* C15: a move step on a vehicle whose status is TERMINAL leaves its
\* position, its to-go queue and its distance metrics unchanged, whatever
\* the queue contains
C15_TerminalStaysPut ==
    [][\A v \in Trikes :
         tricycles[v].status = "TERMINAL" =>
            /\ tricycles'[v].pos = tricycles[v].pos
            /\ tricycles'[v].to_go = tricycles[v].to_go
            /\ tricycles'[v].totalDistance = tricycles[v].totalDistance
            /\ tricycles'[v].totalProductiveDistance
                  = tricycles[v].totalProductiveDistance]_vars

\* moveTrike has been called on a TERMINAL vehicle whose queue starts with
\* a point away from it
C15_Witness ==
    /\ call.op = "moveTrike"
    /\ tricycles[call.trike].status = "TERMINAL"
    /\ tricycles[call.trike].to_go # <<>>
    /\ tricycles[call.trike].to_go[1] # tricycles[call.trike].pos

\* The distance vehicle v covers in the step
StepDistance(v) == tricycles'[v].totalDistance - tricycles[v].totalDistance

\* C16: totalProductiveDistance <= totalDistance for every vehicle at every
\* point of a run; a move step adds one increment, at most the speed times
\* the tick and at most the rest of the segment, to totalDistance, and adds
\* it to totalProductiveDistance exactly when the vehicle carries a
\* passenger during the step
C16_ProductiveDistance ==
    /\ [](\A v \in Trikes :
            /\ 0 <= tricycles[v].totalProductiveDistance
            /\ tricycles[v].totalProductiveDistance <= tricycles[v].totalDistance)
    /\ [][\A v \in Trikes :
            /\ 0 <= StepDistance(v) /\ StepDistance(v) <= Speed * 1
            /\ StepDistance(v) > 0 =>
                  /\ phase = "move" /\ idx = v
                  /\ tricycles[v].to_go # <<>>
                  /\ StepDistance(v)
                        <= haversine(tricycles[v].pos, tricycles[v].to_go[1])
                  /\ haversine(tricycles'[v].pos, tricycles[v].pos)
                        = StepDistance(v)
            /\ tricycles'[v].totalProductiveDistance
                  - tricycles[v].totalProductiveDistance
                  = IF Len(tricycles[v].passengers) > 0 THEN StepDistance(v) ELSE 0
         ]_vars

\* A vehicle has travelled both empty and with a passenger
C16_Witness ==
    \E v \in Trikes :
        /\ 0 < tricycles[v].totalProductiveDistance
        /\ tricycles[v].totalProductiveDistance < tricycles[v].totalDistance

\* Vehicle v, roaming with nobody on board and no claim, ends a leg of its
\* roam cycle in the step: its turn in phase 3 finds nothing to move to
CycleEnds(v) ==
    /\ phase = "move" /\ idx = v
    /\ tricycles[v].active /\ tricycles[v].isRoaming
    /\ tricycles[v].passengers = <<>>
    /\ tricycles[v].enqueuedPassenger = None
    /\ \/ tricycles[v].to_go = <<>>
       \/ tricycles[v].to_go[1] = tricycles[v].pos

\* Vehicle v leaves the step with a generated roam path and a cycle count
\* of zero
NewRoamPathTaken(v) ==
    /\ tricycles'[v].cycleCount = 0
    /\ tricycles'[v].roamPath \in RoamPaths
    /\ tricycles'[v].active

ErrorRaised(v) == ~tricycles[v].error /\ tricycles'[v].error

\* C18: a runtime error raised while one vehicle is processed in the move
\* phase makes that vehicle, and no other, finished and inactive; the tick
\* goes on with the next vehicle or with terminal matching, within the same
\* tick, and the run is not ended
C18_MoveErrorContained ==
    [][\A v \in Trikes :
         ErrorRaised(v) =>
            /\ phase = "move" /\ idx = v
            /\ tricycles'[v].finished /\ ~tricycles'[v].active
            /\ \A u \in Trikes \ {v} : tricycles'[u] = tricycles[u]
            /\ terminals' = terminals
            /\ IF v < NumTrikes
               THEN phase' = "move" /\ idx' = v + 1
               ELSE phase' = "terminal" /\ idx' = 1
            /\ cur_time' = cur_time]_vars

\* After an error in the turn of vehicle 1, vehicle 2 has moved in the same
\* tick and terminal matching has started
C18_Witness ==
    /\ tricycles[1].error /\ tricycles[1].finished /\ ~tricycles[1].active
    /\ phase = "terminal"
    /\ cur_time = 0
    /\ tricycles[2].active /\ tricycles[2].totalDistance > 0

\* A configuration the constructor is to refuse: a negative count, a
\* non-empty distribution whose length is not the number of terminals, or
\* no terminal while a vehicle can be created non-roaming
BadConfig(c) ==
    \/ c.totalTrikes < 0 \/ c.totalTerminals < 0 \/ c.totalPassengers < 0
    \/ /\ c.terminalPassengerDistrib # <<>>
       /\ Len(c.terminalPassengerDistrib) # c.totalTerminals
    \/ /\ c.terminalTrikeDistrib # <<>>
       /\ Len(c.terminalTrikeDistrib) # c.totalTerminals
    \/ /\ c.totalTerminals = 0
       /\ c.totalTrikes > 0
       /\ c.roamingTrikeChance < ChanceOne

\* C19: constructing the simulator fails with a configuration error,
\* before any entity is created or any tick runs, whenever a count is
\* negative, a non-empty terminal distribution has a length other than the
\* number of terminals, or there is no terminal while some vehicle would be
\* non-roaming
C19_BadConfigRejected ==
    (phase # "config" /\ BadConfig(call)) =>
        /\ phase = "ImproperConfig"
        /\ tricycles = <<>> /\ passengers = <<>> /\ terminals = <<>>
        /\ cur_time = 0

\* The events the step appends to the log of passenger p
NewEvents(p) ==
    SubSeq(passengers'[p].events, Len(passengers[p].events) + 1,
           Len(passengers'[p].events))

\* C20: a passenger is claimed only by an active vehicle whose status at
\* the moment of the claim is ROAMING or SERVING, never by a vehicle in
\* IDLE, TERMINAL or RETURNING status or by an inactive vehicle; claims
\* that are rolled back at once are counted too
C20_ClaimerStatus ==
    [][\A p \in Psgrs :
         /\ \A i \in 1..Len(NewEvents(p)) :
               NewEvents(p)[i].type = "ENQUEUE" =>
                  /\ tricycles[NewEvents(p)[i].data].active
                  /\ tricycles[NewEvents(p)[i].data].status
                        \in {"ROAMING", "SERVING"}
         /\ (passengers[p].status # "ENQUEUED" /\ passengers'[p].status = "ENQUEUED")
               => /\ passengers'[p].claimed_by \in Trikes
                  /\ tricycles[passengers'[p].claimed_by].active
                  /\ tricycles[passengers'[p].claimed_by].status
                        \in {"ROAMING", "SERVING"}]_vars

\* A passenger is claimed by a vehicle that was SERVING when it claimed, and
\* another one by a vehicle that was ROAMING
C20_Witness ==
    /\ \E p \in Psgrs :
          /\ passengers[p].status = "ENQUEUED"
          /\ tricycles[passengers[p].claimed_by].status = "SERVING"
          /\ tricycles[passengers[p].claimed_by].enqueuedPassenger = p
    /\ \E p \in Psgrs :
          /\ passengers[p].status = "ENQUEUED"
          /\ tricycles[passengers[p].claimed_by].status = "ENQUEUING"
          /\ tricycles[passengers[p].claimed_by].enqueuedPassenger = p

\* The vehicle whose turn it is in phase 1 looks for a passenger
ClaimAttempt ==
    /\ phase = "claim"
    /\ tricycles[idx].active
    /\ tricycles[idx].isRoaming \/ tricycles[idx].status = "SERVING"

\* C21: a claim attempt by a vehicle that already has an outstanding claim,
\* or whose onboard count equals its capacity, changes nothing: no passenger
\* changes status or gets an event, the vehicle gets no event, and its
\* status, claim slot and to-go queue are as before
C21_BlockedClaimChangesNothing ==
    [][(/\ ClaimAttempt
        /\ \/ tricycles[idx].enqueuedPassenger # None
           \/ Len(tricycles[idx].passengers) = tricycles[idx].capacity)
          => /\ passengers' = passengers
             /\ map_passengers' = map_passengers
             /\ tricycles'[idx].events = tricycles[idx].events
             /\ tricycles'[idx].status = tricycles[idx].status
             /\ tricycles'[idx].enqueuedPassenger = tricycles[idx].enqueuedPassenger
             /\ tricycles'[idx].to_go = tricycles[idx].to_go
             /\ tricycles' = tricycles]_vars

\* Phase 1 of a tick has just ended; vehicle 1 went through it with a claim
\* of an earlier tick and a WAITING passenger in its radius, vehicle 2 with
\* every seat taken
C21_Witness ==
    /\ phase = "offload" /\ idx = 1
    /\ tricycles[1].active /\ tricycles[1].isRoaming
    /\ tricycles[1].enqueuedPassenger # None
    /\ \E i \in 1..Len(tricycles[1].events) :
          /\ tricycles[1].events[i] = TrikeEvent("ENQUEUE", tricycles[1].enqueuedPassenger)
          /\ i < Len(tricycles[1].events)
    /\ \E p \in Psgrs :
          /\ passengers[p].status = "WAITING"
          /\ haversine(tricycles[1].pos, passengers[p].src) <= ENQUEUE_RADIUS
    /\ tricycles[2].active /\ tricycles[2].status = "SERVING"
    /\ Len(tricycles[2].passengers) = tricycles[2].capacity

\* In this step the vehicle whose turn it is claims passenger p, and the
\* claim stands when the step ends
Claimed(p) ==
    /\ ClaimAttempt
    /\ passengers[p].status = "WAITING"
    /\ passengers'[p].status = "ENQUEUED"

\* The claim of p needs a route update: the source of p is not yet a point
\* of the vehicle's to-go queue
RouteUpdated(p) ==
    \A k \in 1..Len(tricycles[idx].to_go) :
        tricycles[idx].to_go[k] # passengers[p].src

ClaimRolledBack(p) ==
    /\ ClaimAttempt
    /\ passengers[p].status = "WAITING"
    /\ NewEvents(p) = <<Event("ENQUEUE", idx, cur_time),
                        Event("RESET", idx, cur_time)>>

\* What the two sides hold after a rollback, but for the vehicle's status
RolledBackClean(p) ==
    /\ passengers'[p].status = "WAITING"
    /\ passengers'[p].claimed_by = None
    /\ tricycles'[idx].enqueuedPassenger = None
    /\ \A v \in Trikes : tricycles'[v].enqueuedPassenger # p

Onboard(trike) == {trike.passengers[i] : i \in 1..Len(trike.passengers)}

\* In this step vehicle v loads a passenger
Loads(v) == Onboard(tricycles'[v]) \ Onboard(tricycles[v]) # {}

\* C24: after every successful load of a passenger into a vehicle, by
\* proximity pickup or by terminal matching, the vehicle's claim slot is
\* empty and the vehicle's status is SERVING, whatever its status was
C24_LoadedIsServing ==
    [][\A v \in Trikes :
         Loads(v) => /\ tricycles'[v].enqueuedPassenger = None
                     /\ tricycles'[v].status = "SERVING"]_vars

\* C25: proximity loading loads a passenger into a vehicle only if the
\* passenger is ENQUEUED, its claimer is that vehicle and the vehicle stands
\* within the location tolerance of the passenger's source; no other vehicle
\* loads anybody in that step
C25_ProximityLoadsOwnClaim ==
    [][phase = "load" =>
         /\ \A p \in Onboard(tricycles'[idx]) \ Onboard(tricycles[idx]) :
               /\ passengers[p].status = "ENQUEUED"
               /\ passengers[p].claimed_by = idx
               /\ haversine(tricycles[idx].pos, passengers[p].src)
                     <= AT_LOCATION_THRESHOLD
         /\ \A v \in Trikes \ {idx} : tricycles'[v] = tricycles[v]]_vars

\* A vehicle has just loaded its claimed passenger by proximity while
\* another passenger of the map, not claimed by it, was in its pickup radius
C25_Witness ==
    /\ phase \in {"offload", "move"}
    /\ \E v \in Trikes, p, q \in Psgrs :
          /\ p \in Onboard(tricycles[v])
          /\ passengers[p].pickupTime = cur_time
          /\ Last(passengers[p].events) = Event("LOAD", v, cur_time)
          /\ q # p
          /\ \E i \in 1..Len(map_passengers) : map_passengers[i] = q
          /\ passengers[q].status \in {"WAITING", "ENQUEUED"}
          /\ passengers[q].claimed_by # v
          /\ haversine(tricycles[v].pos, passengers[q].src) <= PICKUP_RADIUS


\* ------------------------------------------------------------- C26 ---
\* The driver lets vehicle v look for a passenger, and v has no outstanding
\* claim and a free seat
LooksFor(v) ==
    /\ phase = "driver"
    /\ call'.op = "enqueueNearbyPsgrBetter" /\ call'.trike = v
    /\ tricycles[v].enqueuedPassenger = None
    /\ Len(tricycles[v].passengers) < tricycles[v].capacity

\* The WAITING passengers on the map within the radius vehicle v looks in
InReach(v) ==
    {p \in Psgrs :
        /\ \E i \in 1..Len(map_passengers) : map_passengers[i] = p
        /\ passengers[p].status = "WAITING"
        /\ Abs(tricycles[v].pos - passengers[p].src)
              <= (IF tricycles[v].passengers = <<>>
                  THEN ENQUEUE_RADIUS ELSE S_ENQUEUE_RADIUS)}

\* The step claims passenger p for vehicle v (and may roll the claim back)
ClaimsFor(v, p) ==
    /\ NewEvents(p) # <<>>
    /\ NewEvents(p)[1] = Event("ENQUEUE", v, cur_time)

\* Point d lies on the road between the points a and b
OnTheWay(a, b, d) == (a <= d /\ d <= b) \/ (b <= d /\ d <= a)

\* The step changes no vehicle, no passenger and not the map
ClaimLeavesAll ==
    /\ tricycles' = tricycles
    /\ passengers' = passengers
    /\ map_passengers' = map_passengers

\* C26: a vehicle that looks for a passenger claims nobody but a nearest
\* WAITING passenger within its radius; with no passenger on board it
\* claims one whenever there is one; with a passenger on board it claims
\* only if it has a next waypoint, the planner found the route to it and
\* the candidate's destination lies on that route, and if it has no next
\* waypoint or the planner reports no route, it claims nobody and no vehicle,
\* passenger or map entry changes
C26_RouteAwarePolicy ==
    [][\A v \in Trikes :
         LooksFor(v) =>
            /\ \A p \in Psgrs :
                  ClaimsFor(v, p) =>
                     /\ p \in InReach(v)
                     /\ \A q \in InReach(v) :
                           Abs(tricycles[v].pos - passengers[p].src)
                              <= Abs(tricycles[v].pos - passengers[q].src)
            /\ (tricycles[v].passengers = <<>> /\ InReach(v) # {})
                  => \E p \in Psgrs : ClaimsFor(v, p)
            /\ tricycles[v].passengers # <<>> =>
                  /\ \A p \in Psgrs :
                        ClaimsFor(v, p) =>
                           /\ tricycles[v].to_go # <<>>
                           /\ call'.ok
                           /\ OnTheWay(tricycles[v].pos, tricycles[v].to_go[1],
                                       passengers[p].dest)
                  /\ (tricycles[v].to_go = <<>> \/ ~call'.ok)
                        => ClaimLeavesAll
                  /\ (\A p \in Psgrs : ~ClaimsFor(v, p)) => ClaimLeavesAll]_vars

\* A vehicle with a passenger on board and a next waypoint has just looked
\* for a passenger with a candidate in its radius whose destination is on
\* the way, the planner reported no route, and the candidate still waits
C26_Witness ==
    /\ phase = "driver"
    /\ call.op = "enqueueNearbyPsgrBetter" /\ ~call.ok
    /\ \E v \in Trikes :
         /\ call.trike = v
         /\ tricycles[v].passengers # <<>>
         /\ tricycles[v].enqueuedPassenger = None
         /\ Len(tricycles[v].passengers) < tricycles[v].capacity
         /\ tricycles[v].to_go # <<>>
         /\ \E p \in InReach(v) :
               OnTheWay(tricycles[v].pos, tricycles[v].to_go[1],
                        passengers[p].dest)


\* ------------------------------------------------------------- C27 ---
\* The step is a direct call of updatePath on vehicle v
UpdatesPath(v) ==
    phase = "driver" /\ call'.op = "updatePath" /\ call'.trike = v

\* Vehicle v is ENQUEUING and point d is not the source of a passenger it
\* has claimed
Diverted(v, d) ==
    /\ tricycles[v].status = "ENQUEUING"
    /\ \/ tricycles[v].enqueuedPassenger = None
       \/ Abs(d - passengers[tricycles[v].enqueuedPassenger].src)
             > AT_LOCATION_THRESHOLD

\* C27: a route update requested for a vehicle in ENQUEUING status to a
\* destination that is not the source of its claimed passenger returns
\* failure, whatever the merge policy, the planner's reply and the vehicle's
\* position (the destination included)
C27_EnqueuingNotDiverted ==
    [][\A v \in Trikes :
         (UpdatesPath(v) /\ Diverted(v, call'.dest)) => ~call'.ok]_vars

\* An ENQUEUING vehicle has just been refused a route update to the very
\* point it stands at, which is not the source of the passenger it claimed
C27_Witness ==
    /\ phase = "driver"
    /\ call.op = "updatePath" /\ ~call.ok
    /\ \E v \in Trikes :
         /\ call.trike = v
         /\ tricycles[v].pos = call.dest
         /\ Diverted(v, call.dest)


\* ------------------------------------------------------------- C28 ---
\* The step is a direct call of updatePath or of scheduleNextPassenger (which
\* issues a front-priority update) on vehicle v, and the update is refused
UpdateRefused(v) ==
    /\ phase = "driver"
    /\ call'.op \in {"updatePath", "scheduleNextPassenger"}
    /\ call'.trike = v
    /\ ~call'.ok

\* C28: a refused route update, whatever the reason (the ENQUEUING guard, no
\* route, a route of fewer than two points, no connector), whatever the
\* merge policy, issued directly or by the scheduler, leaves the vehicle's
\* to-go queue, status, position, claim slot and onboard passengers as they
\* were
C28_RefusedUpdateChangesNothing ==
    [][\A v \in Trikes :
         UpdateRefused(v) =>
            /\ tricycles'[v].to_go = tricycles[v].to_go
            /\ tricycles'[v].status = tricycles[v].status
            /\ tricycles'[v].pos = tricycles[v].pos
            /\ tricycles'[v].enqueuedPassenger = tricycles[v].enqueuedPassenger
            /\ tricycles'[v].passengers = tricycles[v].passengers]_vars

\* The scheduler has just been refused by the planner the route for a
\* passenger on board of a vehicle that has waypoints to go
C28_Witness ==
    /\ phase = "driver"
    /\ call.op = "scheduleNextPassenger" /\ ~call.ok /\ call.asked = 1
    /\ \E v \in Trikes :
         /\ call.trike = v
         /\ tricycles[v].passengers # <<>>
         /\ tricycles[v].to_go # <<>>
         /\ tricycles[v].pos # call.dest


\* ------------------------------------------------------------- C29 ---
\* Vehicle v stands within the location tolerance of point d
StandsAt(v, d) == Abs(tricycles[v].pos - d) <= AT_LOCATION_THRESHOLD

\* The call of the step succeeded without a query to the planner and left
\* the to-go queue of vehicle v as it was
TrivialSuccess(v) ==
    /\ call'.ok
    /\ call'.asked = 0
    /\ tricycles'[v].to_go = tricycles[v].to_go

\* C29 as stated: a route update whose destination is within the location
\* tolerance of the vehicle's position succeeds, leaves the to-go queue
\* unchanged and does not consult the planner
C29_AtDestinationSucceeds ==
    [][\A v \in Trikes :
         (UpdatesPath(v) /\ StandsAt(v, call'.dest)) => TrivialSuccess(v)]_vars

\* C29, amended: the same, for a vehicle that is not ENQUEUING or whose
\* destination is the source of the passenger it has claimed; the update of
\* an ENQUEUING vehicle to any other point is refused, the point it stands
\* at included, and in both cases the planner is not consulted and the
\* queue does not change
C29_AtDestinationUnlessDiverted ==
    [][\A v \in Trikes :
         (UpdatesPath(v) /\ StandsAt(v, call'.dest)) =>
            /\ call'.asked = 0
            /\ tricycles'[v].to_go = tricycles[v].to_go
            /\ call'.ok <=> ~Diverted(v, call'.dest)]_vars

\* An update to the point the vehicle stands at has just succeeded without
\* a query to the planner, on a vehicle with waypoints to go that do not end
\* at that point
C29_Witness ==
    /\ phase = "driver"
    /\ call.op = "updatePath" /\ call.ok /\ call.asked = 0
    /\ \E v \in Trikes :
         /\ call.trike = v
         /\ StandsAt(v, call.dest)
         /\ tricycles[v].to_go # <<>>
         /\ Last(tricycles[v].to_go) # call.dest


\* ------------------------------------------------------------- C30 ---
\* The step is a successful front-priority route update, issued directly or
\* by the scheduler, to a point vehicle v does not stand at, while v has
\* waypoints to go
FrontUpdated(v) ==
    /\ phase = "driver"
    /\ call'.op \in {"updatePath", "scheduleNextPassenger"}
    /\ call'.trike = v
    /\ call'.priority = "front"
    /\ call'.ok
    /\ tricycles[v].to_go # <<>>
    /\ ~StandsAt(v, call'.dest)

\* The queue the front policy is to build from queue q for destination d:
\* the planned route to d, the connector from d to the head of q, the rest
\* of q. On this road the planned route from the vehicle's position is the
\* single waypoint d and the connector is d followed by the head of q.
FrontSplice(d, q) == <<d>> \o <<d, q[1]>> \o Tail(q)

\* C30: after a successful front-priority route update to destination D on
\* a vehicle with a non-empty to-go queue Q that is not at D, the new queue
\* is the route to D, the connector from D to the former head of Q and the
\* rest of Q, so that D is the vehicle's next waypoint
C30_FrontSplices ==
    [][\A v \in Trikes :
         FrontUpdated(v) =>
            /\ tricycles'[v].to_go = FrontSplice(call'.dest, tricycles[v].to_go)
            /\ tricycles'[v].to_go[1] = call'.dest]_vars


\* ------------------------------------------------------------- C31 ---
\* Phase 4 of the running tick is over: every terminal has had its turns
PhaseFourOver == phase = "terminal" /\ idx > NumTerminals

\* C31: at the end of phase 4 of every tick no terminal has both a waiting
\* passenger and a parked vehicle left
C31_MatchingExhausted ==
    PhaseFourOver =>
        \A t \in Terms :
            terminals[t].passengers = <<>> \/ terminals[t].queue = <<>>

\* Phase 4 has matched a terminal twice in one tick: two vehicles have left
\* it, each with passengers picked up in this tick, and its passenger queue
\* is empty
C31_Witness ==
    /\ PhaseFourOver
    /\ \E t \in Terms : terminals[t].passengers = <<>>
    /\ \E v1, v2 \in Trikes :
         /\ v1 # v2
         /\ \A v \in {v1, v2} :
               /\ ~tricycles[v].isRoaming
               /\ tricycles[v].active
               /\ tricycles[v].passengers # <<>>
               /\ \A i \in 1..Len(tricycles[v].passengers) :
                     passengers[tricycles[v].passengers[i]].pickupTime = cur_time


\* ------------------------------------------------------------- C32 ---
\* The step is the move turn of an active vehicle v in phase 3
MoveTurnOf(v) == phase = "move" /\ idx = v /\ tricycles[v].active

\* The step did to vehicle v nothing but a move: apart from its position,
\* its distances and its MOVE event, the vehicle is as before, with the
\* same to-go queue or the queue without its head; no passenger and no
\* terminal changes
MovedOnly(v) ==
    /\ tricycles'[v].to_go \in {tricycles[v].to_go, Tail(tricycles[v].to_go)}
    /\ tricycles'[v].status = tricycles[v].status
    /\ tricycles'[v].active = tricycles[v].active
    /\ tricycles'[v].finished = tricycles[v].finished
    /\ tricycles'[v].cycleCount = tricycles[v].cycleCount
    /\ tricycles'[v].roamPath = tricycles[v].roamPath
    /\ tricycles'[v].enqueuedPassenger = tricycles[v].enqueuedPassenger
    /\ tricycles'[v].passengers = tricycles[v].passengers
    /\ passengers' = passengers
    /\ terminals' = terminals

\* C32 as stated: a vehicle whose to-go queue is not empty at the start of
\* its move turn triggers no secondary behaviour (no drop-off, scheduling,
\* parking, routing to a terminal, retirement, cycle count or roam waypoint):
\* the turn only moves it
C32_QueuedVehicleOnlyMoves ==
    [][\A v \in Trikes :
         (MoveTurnOf(v) /\ tricycles[v].to_go # <<>>) => MovedOnly(v)]_vars


\* ------------------------------------------------------------- C33 ---
\* The step is the move turn of an active non-roaming vehicle v without
\* passengers that has nowhere to go
StuckEmptyHanded(v) ==
    /\ MoveTurnOf(v)
    /\ ~tricycles[v].isRoaming
    /\ tricycles[v].passengers = <<>>
    /\ tricycles[v].to_go = <<>>

\* The terminals vehicle v stands at
TerminalsAt(v) ==
    {t \in Terms :
        Abs(terminals[t].location - tricycles[v].pos) <= AT_LOCATION_THRESHOLD}

\* The step parks vehicle v at terminal t
ParkedAt(v, t) ==
    /\ terminals'[t].queue = Append(terminals[t].queue, v)
    /\ tricycles'[v].status = "TERMINAL"
    /\ ~tricycles'[v].active
    /\ ~tricycles'[v].finished

\* The step gives vehicle v a route that ends at a terminal nearest to it
RoutedToNearest(v) ==
    /\ tricycles'[v].to_go # <<>>
    /\ \E t \in Terms :
         /\ Last(tricycles'[v].to_go) = terminals[t].location
         /\ \A u \in Terms :
               Abs(terminals[t].location - tricycles[v].pos)
                  <= Abs(terminals[u].location - tricycles[v].pos)
    /\ tricycles'[v].active
    /\ ~tricycles'[v].finished
    /\ terminals' = terminals

\* The step retires vehicle v
Retired(v) == tricycles'[v].finished /\ ~tricycles'[v].active

C34_TerminalPassengersWait ==
    TickBoundary =>
        \A t \in Terms :
            \A i \in 1..Len(terminals[t].passengers) :
                passengers[terminals[t].passengers[i]].status = "WAITING"


\* ------------------------------------------------------------- C35 ---
\* The places (terminal, position in its queue) at which vehicle v is parked
Parkings(v) ==
    {tk \in Terms \X (1..NumTrikes) :
        /\ tk[2] <= Len(terminals[tk[1]].queue)
        /\ terminals[tk[1]].queue[tk[2]] = v}

\* C35: at every tick boundary a vehicle is in a terminal's vehicle queue
\* if and only if its status is TERMINAL; a queued vehicle is inactive and
\* carries no passengers, and no vehicle is queued more than once over all
\* the terminals
C35_QueuedIffTerminal ==
    TickBoundary =>
        \A v \in Trikes :
            /\ Parkings(v) # {} <=> tricycles[v].status = "TERMINAL"
            /\ Parkings(v) # {} =>
                  /\ ~tricycles[v].active
                  /\ tricycles[v].passengers = <<>>
            /\ Cardinality(Parkings(v)) <= 1
            /\ \A t \in Terms : Len(terminals[t].queue) <= NumTrikes

\* A tick has ended with a vehicle parked again after a drop-off and another
\* vehicle on the road
C35_Witness ==
    /\ TickBoundary
    /\ \E v, u \in Trikes :
         /\ Parkings(v) # {}
         /\ \E i \in 1..Len(tricycles[v].events) :
               tricycles[v].events[i].type = "DROP-OFF"
         /\ tricycles[u].active
         /\ tricycles[u].status # "TERMINAL"


\* ------------------------------------------------------------- C36 ---
\* The seats (vehicle, position in its onboard list) passenger p sits on
Seats(p) ==
    {vk \in Trikes \X (1..NumPassengers) :
        /\ vk[2] <= Len(tricycles[vk[1]].passengers)
        /\ tricycles[vk[1]].passengers[vk[2]] = p}

\* C36: at every point of a run no passenger is in the onboard lists of two
\* vehicles, nor twice in the list of one vehicle
C36_OneSeatPerPassenger ==
    \A p \in Psgrs : Cardinality(Seats(p)) <= 1


\* ------------------------------------------------------------- C37 ---
\* C37: at every tick boundary the passenger in a vehicle's claim slot has
\* status ENQUEUED and is claimed by that vehicle
C37_ClaimSlotIsLive ==
    TickBoundary =>
        \A v \in Trikes :
            tricycles[v].enqueuedPassenger # None =>
               /\ passengers[tricycles[v].enqueuedPassenger].status = "ENQUEUED"
               /\ passengers[tricycles[v].enqueuedPassenger].claimed_by = v


\* ------------------------------------------------------------- C38 ---
\* C38: COMPLETED is absorbing: a COMPLETED passenger keeps that status in
\* every step, gets no further event in its log, and sits in no vehicle's
\* onboard list at the tick boundaries that follow
C38_CompletedIsAbsorbing ==
    [][\A p \in Psgrs :
          passengers[p].status = "COMPLETED" =>
             /\ passengers'[p].status = "COMPLETED"
             /\ passengers'[p].events = passengers[p].events
             /\ (TickBoundary' => Seats(p)' = {})]_vars


\* ------------------------------------------------------------- C39 ---
\* C39: in every step a vehicle's status stays as it is or changes along an
\* edge of the transition table, whichever handler makes the step
C39_StatusMovesAlongTable ==
    [][\A v \in Trikes :
          tricycles'[v].status # tricycles[v].status
              => <<tricycles[v].status, tricycles'[v].status>> \in StatusTable]_vars

\* A vehicle that was loaded at its terminal and has dropped a passenger is
\* parked again, and some vehicle's claim has been rolled back
C39_Witness ==
    /\ \E v \in Trikes :
         /\ tricycles[v].status = "TERMINAL"
         /\ \E i \in 1..Len(tricycles[v].events) :
               tricycles[v].events[i].type = "DROP-OFF"
    /\ \E p \in Psgrs :
         \E i \in 1..Len(passengers[p].events) :
            passengers[p].events[i].type = "RESET"


\* ------------------------------------------------------------- C40 ---
\* finishTrip has been called on vehicle v in the step
JustRetired(v) == ~tricycles[v].finished /\ tricycles'[v].finished

\* C40: a vehicle that is retired holds no outstanding claim and carries no
\* passengers, so that no passenger stays ENQUEUED or ONBOARD on an inactive
\* vehicle
C40_RetiredEmptyHanded ==
    [][\A v \in Trikes :
          JustRetired(v) =>
             /\ tricycles'[v].enqueuedPassenger = None
             /\ tricycles'[v].passengers = <<>>
             /\ \A p \in Psgrs :
                   passengers'[p].status \in {"ENQUEUED", "ONBOARD"}
                       => passengers'[p].claimed_by # v]_vars

====
